---- MODULE Spec2Model ----
(***************************************************************************)
(* PicoBot host/peripheral serial transport and macro playback.            *)
(*                                                                         *)
(* Spec     : one SerialSession (picobot/transport/serial_manager.py) with *)
(*            its reader thread, its writer thread, callers of send_text,  *)
(*            threads calling close(), and the peripheral's replies        *)
(*            (CIRCUITPY/code.py).                                         *)
(* SpecClose: the same session with concurrent close() calls.             *)
(* SpecPlay : MacroController.play_macro_thread                            *)
(*            (picobot/playback/macro_controller.py).                      *)
(* SpecReady: the session with callers of wait_for_ready and a clock;      *)
(*            SpecReadyLive adds the fairness of the loops.                *)
(* SpecDisc : SerialManager.discover_data_port and _probe_for_ready.       *)
(* SpecPico : the main loop of the peripheral (CIRCUITPY/code.py);         *)
(*            SpecBeacon follows its beacon over several connections.      *)
(* SpecNorm : one payload on its way to the channel, through send_text,    *)
(*            through the relay's enqueue_hid_payload, or through          *)
(*            normalize_payload.                                           *)
(* SpecSend : the session with the callers of send_text returning;         *)
(*            SpecSendLive adds the fairness of the writer and callers.    *)
(* SpecReadyBusy: SpecReady with more send_text traffic.                   *)
(* SpecCount: CountdownService (picobot/countdown.py); SpecCountSolo has   *)
(*            one start() call.                                            *)
(*                                                                         *)
(* Time is abstracted: a timeout is an action that is enabled while the    *)
(* awaited event has not happened.  A thread.join(timeout=1.0) may expire  *)
(* only while the joined thread is blocked in a wait that can last longer  *)
(* than the join (the writer's ack_event.wait(cmd.timeout), 1.5 s by       *)
(* default); the other blocking calls of the loops (queue.get(0.1),        *)
(* readline with a 0.2-0.5 s timeout) are shorter than the join.           *)
(***************************************************************************)
EXTENDS Naturals, Sequences, FiniteSets

VARIABLES
    \* ---- SerialSession ----
    running,       \* SerialSession._running
    serial_open,   \* self._serial.is_open
    cmd_queue,     \* self._cmd_queue: command ids, 0 is the None sentinel
    cmds,          \* the _SerialCommand objects created so far, by id
    ack_waiters,   \* self._ack_waiters: the id of the command owning each event
    wpc,           \* position of _writer_loop
    wcmd,          \* the command _writer_loop holds (0: none)
    rpc,           \* position of _reader_loop
    clpc,          \* position of each thread calling close()
    tx,            \* lines written to the channel, not yet read by the peripheral
    rx,            \* lines emitted by the peripheral, not yet read by the reader
    \* ---- history of the session (never read by the actions' guards) ----
    wire,          \* ids of the commands written to the channel, in order
    ackLog,        \* one entry per ACK line read: the command it answers, the
                   \* waiter it resolved and the ack wait it was read during
    close_count,   \* number of serial.close() calls made on the channel
    close_calls,   \* number of close() calls made so far
    write_fails,   \* number of failed writes on an open channel
    noise,         \* number of unsolicited lines emitted by the peripheral
    shutdown_done, \* some close() finished joining both loops
    \* ---- readiness (wait_for_ready and the handshake) ----
    now,             \* time.time(), in ticks of half a second
    ready_event,     \* self._ready_event is set
    last_ready_time, \* self._last_ready_time
    last_handshake,  \* self._last_handshake
    wfr,             \* the thread calling wait_for_ready: position and locals
    calls,           \* history: one entry per wait_for_ready call that returned
    \* ---- play_macro_thread ----
    ppc,                 \* position of play_macro_thread
    is_playing,          \* app.is_playing
    keys_currently_down, \* app.keys_currently_down
    use_remote,          \* remote is not None
    playlist,            \* the macro files of the folder, as parse_macro_file reads them
    round,               \* playlists built so far (iterations of the outer while)
    file,                \* index of the file being played (for ... in current_playlist)
    ser,                 \* the port opened for this file: "none", "open", "closed"
    idx,                 \* index of the current event (enumerate(events))
    todo,                \* list(keys_currently_down) still to release in the cleanup
    sent,                \* history: commands written to the peripheral for this file
    failed,              \* history: an event's ACK-waited send failed in this run
    failKeys,            \* history: keys_currently_down when that send failed
    released,            \* history: keys an up was sent for in the cleanup after it
    afterFail,           \* history: macro events sent after that failure
    sleepFalse,          \* history: an interruptible_sleep of this run returned False
    exitsScheduled,      \* history: root.after(0, on_macro_thread_exit) calls
    port,                \* the port play_macro_thread opens (port = auto_port)
    shake,               \* history: the handshake made for the file being played
    \* ---- SerialManager.discover_data_port ----
    disc,          \* position and locals of discover_data_port / _probe_for_ready
    dstat,         \* per candidate: the lines its device emits, and history
    dopen,         \* the candidates whose serial.Serial object is open
    \* ---- the peripheral's main loop (CIRCUITPY/code.py) ----
    pico,          \* position and flags of the main loop
    usb_in,        \* bytes the host wrote that the main loop has not read yet
    rx_buffer,     \* rx_buffer
    hid_down,      \* keys and buttons the HID devices report as pressed
    replies,       \* history: lines written to usb_cdc.data
    plines,        \* history: one entry per command line taken from rx_buffer
    \* ---- a caller handing one payload to the transport ----
    norm,          \* the payload, the route it takes and what comes of it
    \* ---- the callers of send_text ----
    returned,      \* the send_text calls that have returned, with their result
    \* ---- CountdownService (picobot/countdown.py) ----
    caller,        \* the thread calling start() and stop(): position and locals
    stop_event,    \* _stop_event
    thread,        \* _thread: the worker started last (0: None)
    is_running,    \* _is_running
    workers        \* the worker threads: position, remaining, and history

closev == <<clpc, close_count, close_calls, shutdown_done>>
chanv == <<tx, rx, noise>>
histv == <<wire, ackLog, write_fails>>

readyv == <<ready_event, last_ready_time>>
callv == <<now, last_handshake, wfr, calls>>

svars == <<running, serial_open, cmd_queue, cmds, ack_waiters, wpc, wcmd, rpc,
           closev, chanv, histv, readyv, callv>>

histp == <<sent, failed, failKeys, released, afterFail, sleepFalse,
          exitsScheduled, port, shake>>

pvars == <<ppc, is_playing, keys_currently_down, use_remote, playlist, round,
           file, ser, idx, todo, histp>>

dvars == <<disc, dstat, dopen>>

ivars == <<pico, usb_in, rx_buffer, hid_down, replies, plines>>

nvars == <<norm>>

rvars == <<returned>>

cvars == <<caller, stop_event, thread, is_running, workers>>

vars == <<svars, pvars, dvars, ivars, nvars, rvars, cvars>>

\* ------------------------------------------------------------------------
\* Bounds
\* ------------------------------------------------------------------------
MaxCmds == 2        \* send_text calls made on the session (Spec)
MaxCloseCalls == 2  \* close() calls made on the session
CloseMaxCmds == 1   \* send_text calls made on the session (SpecClose)
MaxWriteFail == 1   \* failed writes while the channel is open
MaxNoise == 1       \* unsolicited peripheral lines (beacon)
MaxEvents == 2      \* events of the first macro file of the playlist (SpecPlay)
MaxRounds == 1      \* playlists built by one play_macro_thread (SpecPlay)

MaxReadyCalls == 2  \* wait_for_ready calls made on the session (SpecReady)
ReadyMaxCmds == 1   \* commands queued on the session (SpecReady)
MaxTicks == 2       \* ticks of the clock after the session was opened
ReadyBudget == 1    \* the timeout argument of wait_for_ready, in ticks

MaxScript == 2      \* lines a candidate's device emits while it is probed
MaxPicoLines == 2   \* lines the host writes to the peripheral (SpecPico)
MaxSeconds == 1     \* seconds that pass on the peripheral's clock (SpecPico)
MaxConnects == 2    \* times the host opens the data channel (SpecBeacon)
BusyMaxCmds == 2    \* commands on the session before a send_text call (SpecReadyBusy)
LiveMaxCloses == 1  \* close() calls made on the session (SpecSendLive)
LiveMaxCmds == 1    \* send_text calls made on the session (SpecSendLive)
MaxFields == 3      \* fields of a payload handed to the transport (SpecNorm)
MaxBeaconLines == 1 \* lines the host writes to the peripheral (SpecBeacon)

\* Program constants, in ticks of the clock (half a second).
ReadyFresh == 2     \* wait_for_ready: a PICO_READY less than 1.0 s old is fresh
HandshakeGap == 1   \* send_handshake: no probe within 0.5 s of the last one

\* time.time() when the session is opened: far from the 0.0 that
\* _last_ready_time and _last_handshake start with.
StartTime == ReadyFresh + HandshakeGap

\* list_ports(): the candidate ports, in enumeration order.
Ports == <<"COM1", "COM2">>
NumPorts == Len(Ports)

\* Lines a candidate's device may emit ("" is a readline that timed out).
DevLines == {"", "PICO_READY", ">>>", "Adafruit CircuitPython",
             "Press any key to enter the REPL"}

Closers == {"t1", "t2"}   \* threads that may call close()
Owner == "t1"             \* the thread that opened the session

\* Payload classes: a command the peripheral executes (ACK), one it does not
\* recognise (NACK), the handshake probe (PICO_READY).
Inputs == {[payload |-> "key", wait_ack |-> TRUE],
           [payload |-> "unknown", wait_ack |-> TRUE],
           [payload |-> "hello", wait_ack |-> FALSE]}

\* ------------------------------------------------------------------------
\* Helpers
\* ------------------------------------------------------------------------
RECURSIVE RemoveFirst(_, _)
\* deque.remove(x): drops the first occurrence; ValueError (ignored) if absent.
RemoveFirst(s, x) ==
    IF s = <<>> THEN <<>>
    ELSE IF Head(s) = x THEN Tail(s)
    ELSE <<Head(s)>> \o RemoveFirst(Tail(s), x)

InSeq(s, x) == \E i \in 1..Len(s) : s[i] = x

\* _SerialCommand(payload, wait_ack, timeout) as send_text creates it.
NewCommand(in) ==
    [payload |-> in.payload, wait_ack |-> in.wait_ack, completion |-> FALSE,
     ack_event |-> "none", success |-> FALSE, error |-> FALSE,
     timed_out |-> FALSE, acked_by |-> 0, handled |-> "none"]

\* The peripheral's reply to one line (code.py main loop).
PicoReplyKindMute(payload) == IF payload = "key" THEN "ACK" ELSE "NACK"
PicoReplyKind(payload) ==
    CASE payload = "hello" -> "PICO_READY"
      [] payload = "key" -> "ACK"
      [] OTHER -> "NACK"

\* ------------------------------------------------------------------------
\* SerialSession: initial state (after __init__, both loops started and
\* blocked in their first get / readline)
\* ------------------------------------------------------------------------
\* The ports of the machine, the one selected in the UI, and no port.
PlayPorts == {"COM1", "COM2"}
SelectedPort == "COM1"
NoPort == "none"

\* No handshake made yet for the file.
NoShake == [on |-> NoPort, ready |-> FALSE, fin |-> FALSE, tries |-> 0,
            failed |-> FALSE]

PlayIdle ==
    /\ ppc = "off" /\ is_playing = FALSE /\ keys_currently_down = {}
    /\ use_remote = FALSE /\ playlist = <<>> /\ round = 0 /\ file = 0
    /\ ser = "none" /\ idx = 0 /\ todo = <<>>
    /\ sent = <<>> /\ failed = FALSE /\ failKeys = {} /\ released = {}
    /\ afterFail = 0 /\ sleepFalse = FALSE /\ exitsScheduled = 0
    /\ port = SelectedPort /\ shake = NoShake

\* The thread that calls wait_for_ready, outside a call.
WfrIdle == [pc |-> "idle", at |-> 0, seen |-> 0, deadline |-> 0, cmd |-> 0,
            probes |-> 0, got |-> 0, probed |-> FALSE, fin |-> 0]

SessionInit ==
    /\ running = TRUE
    /\ serial_open = TRUE
    /\ cmd_queue = <<>>
    /\ cmds = <<>>
    /\ ack_waiters = <<>>
    /\ wpc = "get" /\ wcmd = 0
    /\ rpc = "read"
    /\ clpc = [t \in Closers |-> "idle"]
    /\ tx = <<>> /\ rx = <<>>
    /\ wire = <<>> /\ ackLog = <<>>
    /\ close_count = 0 /\ close_calls = 0 /\ write_fails = 0 /\ noise = 0
    /\ shutdown_done = FALSE
    /\ now = StartTime
    /\ ready_event = FALSE
    /\ last_ready_time = 0 /\ last_handshake = 0
    /\ wfr = WfrIdle
    /\ calls = <<>>

\* No discovery under way.
DiscIdle ==
    /\ disc = [pc |-> "idle", exclude |-> 0, i |-> 0, got_ready |-> FALSE,
               found_console |-> FALSE, read_once |-> FALSE, result |-> 0,
               raised |-> FALSE]
    /\ dstat = [p \in 1..NumPorts |->
                  [tried |-> "no", script |-> <<>>, pos |-> 0, wrote |-> 0,
                   errs |-> 0, closes |-> 0]]
    /\ dopen = {}

\* The peripheral before its data channel is connected.
PicoIdle ==
    /\ pico = [pc |-> "top", connected |-> FALSE, data_was_connected |-> FALSE,
               commands_seen |-> FALSE, beacon_due |-> FALSE, alive |-> TRUE,
               mouse |-> TRUE, conn |-> 0, hostlog |-> <<>>, seconds |-> 0]
    /\ usb_in = <<>>
    /\ rx_buffer = <<>>
    /\ hid_down = {}
    /\ replies = <<>>
    /\ plines = <<>>

\* None, and the text no payload has.
None == [padded |-> FALSE, parts |-> <<>>]

\* The caller of the transport holding payload p, before its call.
NormStart(p) ==
    [pc |-> "idle", payload |-> p, via |-> "none", queued |-> <<>>,
     wire |-> <<>>, result |-> "none", out |-> None, again |-> None]

\* No send_text call is followed to its return.
NoReturn == returned = {}

\* No payload is being followed.
NormIdle == norm = [NormStart(None) EXCEPT !.pc = "off"]

\* CountdownService.__init__: no thread, the event clear, not running.
CountInit ==
    /\ caller = [pc |-> "idle", seconds |-> 0, starting |-> FALSE, stops |-> 0]
    /\ stop_event = FALSE /\ thread = 0 /\ is_running = FALSE
    /\ workers = <<>>

Init ==
    /\ SessionInit /\ PlayIdle /\ DiscIdle /\ PicoIdle /\ NormIdle /\ NoReturn
    /\ CountInit

\* ------------------------------------------------------------------------
\* send_text
\* ------------------------------------------------------------------------
\* send_text up to the put on the queue: the command is created and enqueued.
SendText(in, max) ==
    /\ Len(cmds) < max
    /\ cmds' = Append(cmds, NewCommand(in))
    /\ cmd_queue' = Append(cmd_queue, Len(cmds) + 1)
    /\ UNCHANGED <<running, serial_open, ack_waiters, wpc, wcmd, rpc, closev,
                   chanv, histv>>
    /\ UNCHANGED <<readyv, callv, pvars, dvars, ivars, nvars, rvars, cvars>>

\* What send_text returns once cmd.completion is set: cmd.success.
SendTextResult(c) ==
    IF ~cmds[c].completion THEN "blocked"
    ELSE IF cmds[c].success THEN "true" ELSE "false"

\* send_text gives up on cmd.completion (timeout + 1.0 s): possible while the
\* writer is held in an ack wait or has ended.
SendTextNeverGivesUp(c) == FALSE
SendTextGivesUp(c) == ~cmds[c].completion /\ wpc \in {"wait", "done"}

\* The send_text call that submitted command c has not returned yet.
Pending(c) == c \in 1..Len(cmds) /\ \A r \in returned : r.cmd # c

\* cmd.completion.wait(timeout + 1.0) returned True: return cmd.success
SendTextReturns(c) ==
    /\ Pending(c)
    /\ cmds[c].completion
    /\ returned' = returned \cup {[cmd |-> c, result |-> cmds[c].success,
                                    completed |-> TRUE]}
    /\ UNCHANGED <<svars, pvars, dvars, ivars, nvars, cvars>>

\* cmd.completion.wait(timeout + 1.0) returned False: return False
SendTextExpires(c) ==
    /\ Pending(c)
    /\ SendTextGivesUp(c)
    /\ returned' = returned \cup {[cmd |-> c, result |-> FALSE,
                                    completed |-> FALSE]}
    /\ UNCHANGED <<svars, pvars, dvars, ivars, nvars, cvars>>

\* ------------------------------------------------------------------------
\* _writer_loop
\* ------------------------------------------------------------------------
\* queue.Queue.get: the oldest item and what stays queued.
QueueTakeLifo(q) == [item |-> q[Len(q)], rest |-> SubSeq(q, 1, Len(q) - 1)]
QueueTake(q) == [item |-> Head(q), rest |-> Tail(q)]

\* Where the writer goes with a command it took: the waiter is registered
\* before the write when the command waits for an ACK.
WriterAfterGetNoRegister(c) == "write"
WriterAfterGet(c) == IF c.wait_ack THEN "register" ELSE "write"

\* while self._running: the next get, or the drain loop after the while.
WriterLoop == IF running THEN "get" ELSE "drain"

\* cmd = self._cmd_queue.get(timeout=0.1); None breaks out of the loop.
WriterGet ==
    /\ wpc = "get"
    /\ cmd_queue # <<>>
    /\ LET t == QueueTake(cmd_queue) IN
         /\ cmd_queue' = t.rest
         /\ IF t.item = 0
              THEN wpc' = "drain" /\ wcmd' = 0
              ELSE wpc' = WriterAfterGet(cmds[t.item]) /\ wcmd' = t.item
    /\ UNCHANGED <<running, serial_open, cmds, ack_waiters, rpc, closev, chanv,
                   histv>>
    /\ UNCHANGED <<readyv, callv, pvars, dvars, ivars, nvars, rvars, cvars>>

\* queue.Empty: continue, and the while condition ends the loop.
WriterGetEmpty ==
    /\ wpc = "get"
    /\ cmd_queue = <<>>
    /\ ~running
    /\ wpc' = "drain"
    /\ UNCHANGED <<running, serial_open, cmd_queue, cmds, ack_waiters, wcmd, rpc,
                   closev, chanv, histv>>
    /\ UNCHANGED <<readyv, callv, pvars, dvars, ivars, nvars, rvars, cvars>>

\* cmd.ack_event = Event(); with _ack_lock: _ack_waiters.append(cmd.ack_event)
WriterRegister ==
    /\ wpc = "register"
    /\ cmds' = [cmds EXCEPT ![wcmd].ack_event = "clear"]
    /\ ack_waiters' = Append(ack_waiters, wcmd)
    /\ wpc' = "write"
    /\ UNCHANGED <<running, serial_open, cmd_queue, wcmd, rpc, closev, chanv,
                   histv>>
    /\ UNCHANGED <<readyv, callv, pvars, dvars, ivars, nvars, rvars, cvars>>

\* serial.write + flush succeed.  A command that does not wait (or has no
\* ack_event) is completed with success at once.
WriterWrite ==
    /\ wpc = "write"
    /\ serial_open
    /\ tx' = Append(tx, wcmd)
    /\ wire' = Append(wire, wcmd)
    /\ IF ~cmds[wcmd].wait_ack \/ cmds[wcmd].ack_event = "none"
         THEN /\ cmds' = [cmds EXCEPT ![wcmd].success = TRUE,
                                      ![wcmd].completion = TRUE]
              /\ wpc' = WriterLoop /\ wcmd' = 0
         ELSE /\ wpc' = "wait"
              /\ UNCHANGED <<cmds, wcmd>>
    /\ UNCHANGED <<running, serial_open, cmd_queue, ack_waiters, rpc, closev, rx,
                   noise, ackLog, write_fails>>
    /\ UNCHANGED <<readyv, callv, pvars, dvars, ivars, nvars, rvars, cvars>>

\* serial.write or flush raises (closed port, write timeout, device gone):
\* except Exception: cmd.error, cmd.success = False, cmd.completion.set()
WriterWriteFails ==
    /\ wpc = "write"
    /\ \/ ~serial_open /\ write_fails' = write_fails
       \/ serial_open /\ write_fails < MaxWriteFail /\ write_fails' = write_fails + 1
    /\ cmds' = [cmds EXCEPT ![wcmd].error = TRUE, ![wcmd].success = FALSE,
                            ![wcmd].completion = TRUE]
    /\ wpc' = WriterLoop /\ wcmd' = 0
    /\ UNCHANGED <<running, serial_open, cmd_queue, ack_waiters, rpc, closev,
                   chanv, wire, ackLog>>
    /\ UNCHANGED <<readyv, callv, pvars, dvars, ivars, nvars, rvars, cvars>>

\* cmd.ack_event.wait(cmd.timeout) returned True
WriterAckOk ==
    /\ wpc = "wait"
    /\ cmds[wcmd].ack_event = "set"
    /\ cmds' = [cmds EXCEPT ![wcmd].success = TRUE, ![wcmd].completion = TRUE]
    /\ wpc' = WriterLoop /\ wcmd' = 0
    /\ UNCHANGED <<running, serial_open, cmd_queue, ack_waiters, rpc, closev,
                   chanv, histv>>
    /\ UNCHANGED <<readyv, callv, pvars, dvars, ivars, nvars, rvars, cvars>>

\* cmd.ack_event.wait(cmd.timeout) returned False: cmd.success = False
WriterAckTimeout ==
    /\ wpc = "wait"
    /\ cmds[wcmd].ack_event = "clear"
    /\ cmds' = [cmds EXCEPT ![wcmd].success = FALSE, ![wcmd].timed_out = TRUE]
    /\ wpc' = "remove"
    /\ UNCHANGED <<running, serial_open, cmd_queue, ack_waiters, wcmd, rpc,
                   closev, chanv, histv>>
    /\ UNCHANGED <<readyv, callv, pvars, dvars, ivars, nvars, rvars, cvars>>

\* with _ack_lock: _ack_waiters.remove(cmd.ack_event); cmd.completion.set()
WriterRemove ==
    /\ wpc = "remove"
    /\ ack_waiters' = RemoveFirst(ack_waiters, wcmd)
    /\ cmds' = [cmds EXCEPT ![wcmd].completion = TRUE]
    /\ wpc' = WriterLoop /\ wcmd' = 0
    /\ UNCHANGED <<running, serial_open, cmd_queue, rpc, closev, chanv, histv>>
    /\ UNCHANGED <<readyv, callv, pvars, dvars, ivars, nvars, rvars, cvars>>

\* Drain loop: get_nowait(); None is skipped, a command is failed and completed.
WriterDrain ==
    /\ wpc = "drain"
    /\ cmd_queue # <<>>
    /\ LET t == QueueTake(cmd_queue) IN
         /\ cmd_queue' = t.rest
         /\ cmds' = IF t.item = 0 THEN cmds
                    ELSE [cmds EXCEPT ![t.item].success = FALSE,
                                      ![t.item].completion = TRUE]
    /\ UNCHANGED <<running, serial_open, ack_waiters, wpc, wcmd, rpc, closev,
                   chanv, histv>>
    /\ UNCHANGED <<readyv, callv, pvars, dvars, ivars, nvars, rvars, cvars>>

\* Drain loop: queue.Empty: the writer thread ends.
WriterExit ==
    /\ wpc = "drain"
    /\ cmd_queue = <<>>
    /\ wpc' = "done"
    /\ UNCHANGED <<running, serial_open, cmd_queue, cmds, ack_waiters, wcmd, rpc,
                   closev, chanv, histv>>
    /\ UNCHANGED <<readyv, callv, pvars, dvars, ivars, nvars, rvars, cvars>>

\* ------------------------------------------------------------------------
\* _reader_loop
\* ------------------------------------------------------------------------
\* while self._running: the next readline, or the end of the thread.
ReaderLoop == IF running THEN "read" ELSE "done"

\* if line == "ACK": the only line that reaches the pending FIFO.
IsAckOrNack(line) == line.kind \in {"ACK", "NACK"}
IsAckLine(line) == line.kind = "ACK"

\* The command whose cmd.ack_event.wait(cmd.timeout) is running (0: none):
\* it has been written and its timeout has not elapsed.
AckWaitOf == IF wpc = "wait" THEN wcmd ELSE 0

\* An ACK line: with _ack_lock, pop the oldest waiter, if any, and set it.
\* The result is the FIFO, the commands and the log entry of this ACK.
ReadAck(line) ==
    IF ack_waiters # <<>>
      THEN [waiters |-> Tail(ack_waiters),
            commands |-> [cmds EXCEPT ![Head(ack_waiters)].ack_event = "set",
                                      ![Head(ack_waiters)].acked_by = line.of],
            entry |-> [of |-> line.of, res |-> Head(ack_waiters),
                       during |-> AckWaitOf]]
      ELSE [waiters |-> ack_waiters, commands |-> cmds,
            entry |-> [of |-> line.of, res |-> 0, during |-> AckWaitOf]]

\* if self._line_handler: self._line_handler(line): the line is delivered to
\* the observer; the command it answers keeps the kind of line delivered.
LineHandler(commands, line) ==
    IF line.of = 0 THEN commands
    ELSE [commands EXCEPT ![line.of].handled = line.kind]

\* readline() returned a non-empty line: an ACK resolves the oldest waiter,
\* a PICO_READY stamps _last_ready_time and sets _ready_event, and every line
\* goes to the line handler.
ReaderRead ==
    /\ rpc = "read"
    /\ serial_open
    /\ rx # <<>>
    /\ rx' = Tail(rx)
    /\ IF IsAckLine(Head(rx))
         THEN LET r == ReadAck(Head(rx)) IN
                /\ ack_waiters' = r.waiters
                /\ cmds' = LineHandler(r.commands, Head(rx))
                /\ ackLog' = Append(ackLog, r.entry)
         ELSE /\ cmds' = LineHandler(cmds, Head(rx))
              /\ UNCHANGED <<ack_waiters, ackLog>>
    /\ IF Head(rx).kind = "PICO_READY"
         THEN last_ready_time' = now /\ ready_event' = TRUE
         ELSE UNCHANGED readyv
    /\ rpc' = ReaderLoop
    /\ UNCHANGED <<running, serial_open, cmd_queue, wpc, wcmd, closev, tx, noise,
                   wire, write_fails>>
    /\ UNCHANGED <<callv, pvars, dvars, ivars, nvars, rvars, cvars>>

\* readline() timed out with nothing read: continue, and the while condition
\* ends the loop (self._running = False again after it).
ReaderIdle ==
    /\ rpc = "read"
    /\ serial_open
    /\ rx = <<>>
    /\ ~running
    /\ rpc' = "done"
    /\ UNCHANGED <<running, serial_open, cmd_queue, cmds, ack_waiters, wpc, wcmd,
                   closev, chanv, histv>>
    /\ UNCHANGED <<readyv, callv, pvars, dvars, ivars, nvars, rvars, cvars>>

\* readline() raised (port closed under the reader, device gone): break,
\* then self._running = False.
ReaderError ==
    /\ rpc = "read"
    /\ rpc' = "done"
    /\ running' = FALSE
    /\ UNCHANGED <<serial_open, cmd_queue, cmds, ack_waiters, wpc, wcmd, closev,
                   chanv, histv>>
    /\ UNCHANGED <<readyv, callv, pvars, dvars, ivars, nvars, rvars, cvars>>

\* ------------------------------------------------------------------------
\* The peripheral (CIRCUITPY/code.py)
\* ------------------------------------------------------------------------
\* One complete line is processed and answered: PICO_READY to a handshake,
\* ACK to a handled command, NACK otherwise.
PicoReply ==
    /\ tx # <<>>
    /\ tx' = Tail(tx)
    /\ rx' = Append(rx, [kind |-> PicoReplyKind(cmds[Head(tx)].payload),
                         of |-> Head(tx)])
    /\ UNCHANGED <<running, serial_open, cmd_queue, cmds, ack_waiters, wpc, wcmd,
                   rpc, closev, noise, histv>>
    /\ UNCHANGED <<readyv, callv, pvars, dvars, ivars, nvars, rvars, cvars>>

\* The periodic PICO_READY beacon.
PicoBeacon ==
    /\ noise < MaxNoise
    /\ noise' = noise + 1
    /\ rx' = Append(rx, [kind |-> "PICO_READY", of |-> 0])
    /\ UNCHANGED <<running, serial_open, cmd_queue, cmds, ack_waiters, wpc, wcmd,
                   rpc, closev, tx, histv>>
    /\ UNCHANGED <<readyv, callv, pvars, dvars, ivars, nvars, rvars, cvars>>

\* ------------------------------------------------------------------------
\* close()
\* ------------------------------------------------------------------------
\* if not self._running: (close the port if open and return)
CloseCall(t, max) ==
    /\ close_calls < max
    /\ clpc[t] = "idle"
    /\ close_calls' = close_calls + 1
    /\ clpc' = [clpc EXCEPT ![t] = IF running THEN "set" ELSE "isopen"]
    /\ UNCHANGED <<running, serial_open, cmd_queue, cmds, ack_waiters, wpc, wcmd,
                   rpc, close_count, shutdown_done, chanv, histv>>
    /\ UNCHANGED <<readyv, callv, pvars, dvars, ivars, nvars, rvars, cvars>>

\* self._running = False; self._cmd_queue.put_nowait(None)
CloseSet(t) ==
    /\ clpc[t] = "set"
    /\ running' = FALSE
    /\ cmd_queue' = Append(cmd_queue, 0)
    /\ clpc' = [clpc EXCEPT ![t] = "joinW"]
    /\ UNCHANGED <<serial_open, cmds, ack_waiters, wpc, wcmd, rpc, close_count,
                   close_calls, shutdown_done, chanv, histv>>
    /\ UNCHANGED <<readyv, callv, pvars, dvars, ivars, nvars, rvars, cvars>>

\* writer_thread.join(timeout=1.0) returns: the thread ended, or the join
\* expired while the writer is blocked in ack_event.wait(cmd.timeout).
CloseJoinWriter(t) ==
    /\ clpc[t] = "joinW"
    /\ wpc = "done" \/ wpc = "wait"
    /\ clpc' = [clpc EXCEPT ![t] = "joinR"]
    /\ UNCHANGED <<running, serial_open, cmd_queue, cmds, ack_waiters, wpc, wcmd,
                   rpc, close_count, close_calls, shutdown_done, chanv, histv>>
    /\ UNCHANGED <<readyv, callv, pvars, dvars, ivars, nvars, rvars, cvars>>

\* reader_thread.join(timeout=1.0) returns: the reader saw _running False.
CloseJoinReader(t) ==
    /\ clpc[t] = "joinR"
    /\ rpc = "done"
    /\ clpc' = [clpc EXCEPT ![t] = "isopen"]
    /\ shutdown_done' = TRUE
    /\ UNCHANGED <<running, serial_open, cmd_queue, cmds, ack_waiters, wpc, wcmd,
                   rpc, close_count, close_calls, chanv, histv>>
    /\ UNCHANGED <<readyv, callv, pvars, dvars, ivars, nvars, rvars, cvars>>

\* if self._serial and self._serial.is_open:
CloseIsOpen(t) ==
    /\ clpc[t] = "isopen"
    /\ clpc' = [clpc EXCEPT ![t] = IF serial_open THEN "close" ELSE "idle"]
    /\ UNCHANGED <<running, serial_open, cmd_queue, cmds, ack_waiters, wpc, wcmd,
                   rpc, close_count, close_calls, shutdown_done, chanv, histv>>
    /\ UNCHANGED <<readyv, callv, pvars, dvars, ivars, nvars, rvars, cvars>>

\* self._serial.close(); close() returns.
CloseSerial(t) ==
    /\ clpc[t] = "close"
    /\ serial_open' = FALSE
    /\ close_count' = close_count + 1
    /\ clpc' = [clpc EXCEPT ![t] = "idle"]
    /\ UNCHANGED <<running, cmd_queue, cmds, ack_waiters, wpc, wcmd, rpc,
                   close_calls, shutdown_done, chanv, histv>>
    /\ UNCHANGED <<readyv, callv, pvars, dvars, ivars, nvars, rvars, cvars>>

\* ------------------------------------------------------------------------
\* The session's specifications
\* ------------------------------------------------------------------------
\* The steps of the two loops and of the peripheral.
LoopStep ==
    \/ WriterGet \/ WriterGetEmpty \/ WriterRegister
    \/ WriterWrite \/ WriterWriteFails \/ WriterAckOk \/ WriterAckTimeout
    \/ WriterRemove \/ WriterDrain \/ WriterExit
    \/ ReaderRead \/ ReaderIdle \/ ReaderError
    \/ PicoReply \/ PicoBeacon

\* The steps of the loops, of the peripheral and of a close() under way.
SessionStep ==
    \/ LoopStep
    \/ \E t \in Closers : CloseSet(t)
    \/ \E t \in Closers : CloseJoinWriter(t)
    \/ \E t \in Closers : CloseJoinReader(t)
    \/ \E t \in Closers : CloseIsOpen(t)
    \/ \E t \in Closers : CloseSerial(t)

\* Spec: up to MaxCmds send_text calls, and close() called by the owner only.
Next ==
    \/ \E in \in Inputs : SendText(in, MaxCmds)
    \/ CloseCall(Owner, MaxCloseCalls)
    \/ SessionStep

Spec == Init /\ [][Next]_vars

\* SpecClose: up to CloseMaxCmds send_text calls and MaxCloseCalls close()
\* calls, made by the threads of Closers in any interleaving.
NextClose ==
    \/ \E in \in Inputs : SendText(in, CloseMaxCmds)
    \/ \E t \in Closers : CloseCall(t, MaxCloseCalls)
    \/ SessionStep

SpecClose == Init /\ [][NextClose]_vars

\* SpecSend: Spec with the send_text calls followed to their return.
NextSend ==
    \/ \E in \in Inputs : SendText(in, MaxCmds)
    \/ CloseCall(Owner, MaxCloseCalls)
    \/ SessionStep
    \/ \E c \in 1..MaxCmds : SendTextReturns(c)
    \/ \E c \in 1..MaxCmds : SendTextExpires(c)

SpecSend == Init /\ [][NextSend]_vars

\* The steps of the writer thread.
WriterStep ==
    \/ WriterGet \/ WriterGetEmpty \/ WriterRegister
    \/ WriterWrite \/ WriterWriteFails \/ WriterAckOk \/ WriterAckTimeout
    \/ WriterRemove \/ WriterDrain \/ WriterExit

\* SpecSendLive: send_text calls followed to their return on a session the
\* owner closes, with the loops and the peripheral's replies.
NextSendLive ==
    \/ \E in \in Inputs : SendText(in, LiveMaxCmds)
    \/ CloseCall(Owner, LiveMaxCloses)
    \/ CloseSet(Owner) \/ CloseJoinWriter(Owner) \/ CloseJoinReader(Owner)
    \/ CloseIsOpen(Owner) \/ CloseSerial(Owner)
    \/ WriterStep
    \/ ReaderRead \/ ReaderIdle \/ ReaderError
    \/ PicoReply
    \/ \E c \in 1..LiveMaxCmds : SendTextReturns(c)
    \/ \E c \in 1..LiveMaxCmds : SendTextExpires(c)

\* The writer thread and the callers are scheduled, and the timed waits of
\* send_text end.
SpecSendLive ==
    /\ Init /\ [][NextSendLive]_vars
    /\ WF_vars(WriterStep)
    /\ \A c \in 1..LiveMaxCmds :
          WF_vars(SendTextReturns(c)) /\ WF_vars(SendTextExpires(c))

\* ------------------------------------------------------------------------
\* wait_for_ready, send_handshake, finalize_handshake
\* ------------------------------------------------------------------------
\* (time.time() - self._last_ready_time) < 1.0
IsFreshStrict(t) == t - last_ready_time < HandshakeGap
IsFresh(t) == t - last_ready_time < ReadyFresh

\* threading.Event.clear(): the event is not set afterwards.
EventAfterClearKept(e) == e
EventAfterClear(e) == FALSE

\* The handshake probe, as send_handshake and finalize_handshake pass it to
\* send_text.
Hello == [payload |-> "hello", wait_ack |-> FALSE]

\* What a caller of send_text adds to the channel itself: nothing, the
\* command goes through the queue to the writer loop.
CallerWritesDirect(w, c) == Append(w, c)
CallerWrites(w, c) == w

\* The entry a returning wait_for_ready call leaves in the history.
CallEntry(result, got) ==
    [at |-> wfr.at, seen |-> wfr.seen, deadline |-> wfr.deadline,
     probes |-> wfr.probes, result |-> result, got |-> got,
     fin |-> wfr.fin, flushed |-> FALSE]

\* wait_for_ready is called: a fresh PICO_READY returns True at once.
WfrCall ==
    /\ wfr.pc = "idle"
    /\ Len(calls) < MaxReadyCalls
    /\ IF IsFresh(now)
         THEN /\ calls' = Append(calls, [at |-> now, seen |-> last_ready_time,
                                         deadline |-> 0, probes |-> 0,
                                         result |-> TRUE, got |-> last_ready_time,
                                         fin |-> 0, flushed |-> FALSE])
              /\ UNCHANGED wfr
         ELSE /\ wfr' = [WfrIdle EXCEPT !.pc = "clear", !.at = now,
                                        !.seen = last_ready_time]
              /\ UNCHANGED calls
    /\ UNCHANGED <<running, serial_open, cmd_queue, cmds, ack_waiters, wpc, wcmd,
                   rpc, closev, chanv, histv, readyv, now, last_handshake>>
    /\ UNCHANGED <<pvars, dvars, ivars, nvars, rvars, cvars>>

\* self._ready_event.clear()
WfrClear ==
    /\ wfr.pc = "clear"
    /\ ready_event' = EventAfterClear(ready_event)
    /\ wfr' = [wfr EXCEPT !.pc = "handshake"]
    /\ UNCHANGED <<running, serial_open, cmd_queue, cmds, ack_waiters, wpc, wcmd,
                   rpc, closev, chanv, histv, last_ready_time, now,
                   last_handshake, calls>>
    /\ UNCHANGED <<pvars, dvars, ivars, nvars, rvars, cvars>>

\* send_handshake: nothing within 0.5 s of the last probe (and the deadline
\* is taken at once); else the probe is handed to send_text.
WfrSendHandshake ==
    /\ wfr.pc = "handshake"
    /\ IF now - last_handshake < HandshakeGap
         THEN /\ wfr' = [wfr EXCEPT !.pc = "check", !.deadline = now + ReadyBudget]
              /\ UNCHANGED <<last_handshake, cmds, cmd_queue, wire, tx>>
         ELSE /\ last_handshake' = now
              /\ cmds' = Append(cmds, NewCommand(Hello))
              /\ cmd_queue' = Append(cmd_queue, Len(cmds) + 1)
              /\ wire' = CallerWrites(wire, Len(cmds) + 1)
              /\ tx' = CallerWrites(tx, Len(cmds) + 1)
              /\ wfr' = [wfr EXCEPT !.pc = "sending", !.cmd = Len(cmds) + 1,
                                    !.probes = wfr.probes + 1,
                                    !.probed = TRUE]
    /\ UNCHANGED <<running, serial_open, ack_waiters, wpc, wcmd, rpc, closev,
                   rx, noise, ackLog, write_fails, readyv, now, calls>>
    /\ UNCHANGED <<pvars, dvars, ivars, nvars, rvars, cvars>>

\* send_text returned in send_handshake; deadline = time.time() + timeout
WfrSent ==
    /\ wfr.pc = "sending"
    /\ cmds[wfr.cmd].completion \/ SendTextGivesUp(wfr.cmd)
    /\ wfr' = [wfr EXCEPT !.pc = "check", !.cmd = 0, !.deadline = now + ReadyBudget]
    /\ UNCHANGED <<running, serial_open, cmd_queue, cmds, ack_waiters, wpc, wcmd,
                   rpc, closev, chanv, histv, readyv, now, last_handshake, calls>>
    /\ UNCHANGED <<pvars, dvars, ivars, nvars, rvars, cvars>>

\* while time.time() < deadline: ... ; return False
WfrCheck ==
    /\ wfr.pc = "check"
    /\ IF now < wfr.deadline
         THEN wfr' = [wfr EXCEPT !.pc = "wait"] /\ UNCHANGED calls
         ELSE wfr' = WfrIdle /\ calls' = Append(calls, CallEntry(FALSE, 0))
    /\ UNCHANGED <<running, serial_open, cmd_queue, cmds, ack_waiters, wpc, wcmd,
                   rpc, closev, chanv, histv, readyv, now, last_handshake>>
    /\ UNCHANGED <<pvars, dvars, ivars, nvars, rvars, cvars>>

\* self._ready_event.wait(min(remaining, 0.25)): set, or the slice is over.
WfrWait ==
    /\ wfr.pc = "wait"
    /\ wfr' = IF ready_event
                THEN [wfr EXCEPT !.pc = "finalize", !.got = last_ready_time,
                                 !.probed = FALSE]
                ELSE [wfr EXCEPT !.pc = "check", !.probed = FALSE]
    /\ UNCHANGED <<running, serial_open, cmd_queue, cmds, ack_waiters, wpc, wcmd,
                   rpc, closev, chanv, histv, readyv, now, last_handshake, calls>>
    /\ UNCHANGED <<pvars, dvars, ivars, nvars, rvars, cvars>>

\* finalize_handshake: _ready_event.clear(), a last probe through send_text.
WfrFinalize ==
    /\ wfr.pc = "finalize"
    /\ ready_event' = EventAfterClear(ready_event)
    /\ cmds' = Append(cmds, NewCommand(Hello))
    /\ cmd_queue' = Append(cmd_queue, Len(cmds) + 1)
    /\ wire' = CallerWrites(wire, Len(cmds) + 1)
    /\ tx' = CallerWrites(tx, Len(cmds) + 1)
    /\ wfr' = [wfr EXCEPT !.pc = "drain", !.cmd = Len(cmds) + 1,
                          !.probes = wfr.probes + 1, !.fin = wfr.fin + 1]
    /\ UNCHANGED <<running, serial_open, ack_waiters, wpc, wcmd, rpc, closev,
                   rx, noise, ackLog, write_fails, last_ready_time, now,
                   last_handshake, calls>>
    /\ UNCHANGED <<pvars, dvars, ivars, nvars, rvars, cvars>>

\* self._serial.reset_input_buffer(): what was received and not read is gone.
ResetInputBufferKept(buf) == buf
ResetInputBuffer(buf) == <<>>

\* finalize_handshake after send_text returned: up to 0.8 s for a PICO_READY
\* (the window ends with or without one), then reset_input_buffer();
\* wait_for_ready returns True.
WfrDrain ==
    /\ wfr.pc = "drain"
    /\ cmds[wfr.cmd].completion \/ SendTextGivesUp(wfr.cmd)
    /\ rx' = ResetInputBuffer(rx)
    /\ calls' = Append(calls, [CallEntry(TRUE, wfr.got)
                                 EXCEPT !.flushed = rx # <<>>])
    /\ wfr' = WfrIdle
    /\ UNCHANGED <<running, serial_open, cmd_queue, cmds, ack_waiters, wpc, wcmd,
                   rpc, closev, tx, noise, histv, readyv, now, last_handshake>>
    /\ UNCHANGED <<pvars, dvars, ivars, nvars, rvars, cvars>>

\* Half a second passes.  A wait slice never runs past the caller's deadline.
Tick ==
    /\ now < StartTime + MaxTicks
    /\ wfr.pc = "wait" => now < wfr.deadline
    /\ now' = now + 1
    /\ UNCHANGED <<running, serial_open, cmd_queue, cmds, ack_waiters, wpc, wcmd,
                   rpc, closev, chanv, histv, readyv, last_handshake, wfr, calls>>
    /\ UNCHANGED <<pvars, dvars, ivars, nvars, rvars, cvars>>

WfrStep ==
    \/ WfrCall \/ WfrClear \/ WfrSendHandshake \/ WfrSent \/ WfrCheck
    \/ WfrWait \/ WfrFinalize \/ WfrDrain

\* The steps of the loops and of the peripheral on a session without I/O
\* error, the peripheral having stopped its beacon (commands_seen).
SteadyStep ==
    \/ WriterGet \/ WriterRegister \/ WriterWrite \/ WriterAckOk
    \/ WriterAckTimeout \/ WriterRemove \/ ReaderRead \/ PicoReply

\* SpecReady: one thread calling wait_for_ready up to MaxReadyCalls times,
\* other callers of send_text, the loops, the peripheral and the clock.
NextReady ==
    \/ \E in \in Inputs : SendText(in, ReadyMaxCmds)
    \/ SteadyStep
    \/ WfrStep
    \/ Tick

SpecReady == Init /\ [][NextReady]_vars

\* SpecReadyBusy: SpecReady with other callers' send_text calls made also
\* while a wait_for_ready call is under way.
NextReadyBusy ==
    \/ \E in \in Inputs : SendText(in, BusyMaxCmds)
    \/ SteadyStep
    \/ WfrStep
    \/ Tick

SpecReadyBusy == Init /\ [][NextReadyBusy]_vars

\* Something of a handshake round trip is still under way: a command queued
\* or held by the writer, a line on the channel, or a PICO_READY the caller
\* has not picked up yet.
RoundTripPending ==
    \/ cmd_queue # <<>> \/ wcmd # 0 \/ tx # <<>> \/ rx # <<>>
    \/ ready_event /\ wfr.pc \in {"check", "wait"}

\* The clock of a call whose budget covers the round trip: during a call no
\* half second passes while the round trip is under way.
LiveTick == (wfr.pc # "idle" => ~RoundTripPending) /\ Tick

NextReadyLive ==
    \/ \E in \in Inputs : SendText(in, ReadyMaxCmds)
    \/ SteadyStep
    \/ WfrStep
    \/ LiveTick

\* SpecReadyLive: SpecReady with that clock, and the caller, the two loops
\* and the peripheral scheduled fairly.
SpecReadyLive ==
    /\ Init /\ [][NextReadyLive]_vars
    /\ WF_vars(WfrStep)
    /\ WF_vars(WriterGet \/ WriterRegister \/ WriterWrite \/ WriterAckOk
                 \/ WriterAckTimeout \/ WriterRemove)
    /\ WF_vars(ReaderRead)
    /\ WF_vars(PicoReply)

\* ------------------------------------------------------------------------
\* play_macro_thread
\* ------------------------------------------------------------------------
Keys == {"a", "b"}
EventSet == [type : {"down", "up"}, key : Keys]

\* The event lists parse_macro_file can return, up to n events.
Macros(n) == UNION {[1..k -> EventSet] : k \in 1..n}

\* A folder of two macro files: the first one any macro of up to MaxEvents
\* events or a file parse_macro_file rejects (None), the second a single event.
FirstFiles == {[ok |-> TRUE, events |-> m] : m \in Macros(MaxEvents)}
              \cup {[ok |-> FALSE, events |-> <<>>]}
SecondFiles == {[ok |-> TRUE, events |-> <<e>>] : e \in EventSet}
Folders == {<<f1, f2>> : f1 \in FirstFiles, f2 \in SecondFiles}

\* build_playlist: the files in a random order.
Shuffle(files) == {files, <<files[2], files[1]>>}

\* list(keys_currently_down): the keys in any order.
Orderings(S) == {q \in UNION {[1..n -> S] : n \in {Cardinality(S)}} :
                   \A x \in S : \E i \in 1..Len(q) : q[i] = x}

\* The ways one ACK-waited send can end.  Through the relay (remote.send_hid):
\* written and acknowledged, written and not acknowledged in time, or given
\* up on before it was written.  On the thread's own port (ser.write, then
\* wait_for_ack): acknowledged, not acknowledged, or the write raises.
SendOutcomes(remote) ==
    IF remote THEN {"ack", "noack", "unsent"} ELSE {"ack", "noack", "error"}

\* keys_currently_down after an acknowledged event.
KeysAfter(keys, e) == IF e.type = "down" THEN keys \cup {e.key} ELSE keys \ {e.key}

PlayInit ==
    /\ ppc = "start" /\ is_playing = FALSE /\ keys_currently_down = {}
    /\ use_remote \in BOOLEAN /\ playlist \in Folders /\ round = 0 /\ file = 0
    /\ ser = "none" /\ idx = 0 /\ todo = <<>>
    /\ sent = <<>> /\ failed = FALSE /\ failKeys = {} /\ released = {}
    /\ afterFail = 0 /\ sleepFalse = FALSE /\ exitsScheduled = 0
    /\ port = SelectedPort /\ shake = NoShake

InitPlay ==
    /\ SessionInit /\ PlayInit /\ DiscIdle /\ PicoIdle /\ NormIdle /\ NoReturn
    /\ CountInit

\* is_playing = True, keys_currently_down.clear(), activate the window.
PlayStart ==
    /\ ppc = "start"
    /\ keys_currently_down' = {}
    /\ \/ is_playing' = TRUE /\ ppc' = "while" /\ UNCHANGED exitsScheduled
       \/ is_playing' = FALSE /\ ppc' = "exit"
          /\ exitsScheduled' = exitsScheduled + 1
    /\ UNCHANGED <<use_remote, playlist, round, file, ser, idx, todo, sent,
                   failed, failKeys, released, afterFail, sleepFalse,
                   port, shake>>
    /\ UNCHANGED <<svars, dvars, ivars, nvars, rvars, cvars>>

\* while self.app.is_playing: build the playlist (an error breaks the loop).
PlayWhile ==
    /\ ppc = "while"
    /\ IF ~is_playing
         THEN /\ ppc' = "exit" /\ exitsScheduled' = exitsScheduled + 1
              /\ UNCHANGED <<playlist, round, file>>
         ELSE \/ /\ ppc' = "exit" /\ exitsScheduled' = exitsScheduled + 1
                 /\ UNCHANGED <<playlist, round, file>>
              \/ /\ round < MaxRounds
                 /\ round' = round + 1
                 /\ playlist' \in Shuffle(playlist)
                 /\ file' = 1
                 /\ ppc' = "for"
                 /\ UNCHANGED exitsScheduled
    /\ UNCHANGED <<is_playing, keys_currently_down, use_remote, ser, idx, todo,
                   sent, failed, failKeys, released, afterFail, sleepFalse,
                   port, shake>>
    /\ UNCHANGED <<svars, dvars, ivars, nvars, rvars, cvars>>

\* for chosen_macro_name in current_playlist: stop check, parse.
PlayFor ==
    /\ ppc = "for"
    /\ IF file > Len(playlist) \/ ~is_playing
         THEN ppc' = "while" /\ UNCHANGED <<file, sent, ser, shake>>
         ELSE IF ~playlist[file].ok
           THEN file' = file + 1 /\ UNCHANGED <<ppc, sent, ser, shake>>
           ELSE ppc' = "handshake" /\ sent' = <<>> /\ ser' = "none"
                /\ shake' = NoShake
                /\ UNCHANGED file
    /\ UNCHANGED <<is_playing, keys_currently_down, use_remote, playlist, round,
                   idx, todo, failed, failKeys, released, afterFail, sleepFalse,
                   exitsScheduled, port>>
    /\ UNCHANGED <<svars, dvars, ivars, nvars, rvars, cvars>>

\* What remote.wait_for_ready(timeout=12.0) can come to, through the
\* session's wait_for_ready: True at once on a PICO_READY less than a second
\* old (no finalize_handshake), True after a PICO_READY observed in the call
\* and finalize_handshake, or False.
RemoteWaitForReady ==
    {[ok |-> TRUE, fin |-> FALSE], [ok |-> TRUE, fin |-> TRUE],
     [ok |-> FALSE, fin |-> FALSE]}

\* How the 12 s loop on the thread's own port can end: PICO_READY read and
\* _finalize_handshake(ser) done; the budget used up; a console banner read
\* (is_playing = False, break); a SerialException; and, before the loop,
\* serial.Serial(port, ...) failing to open.
HandshakeLoop == {"ready", "timeout", "console", "error", "noport"}

ReadySignalAlways(out) == TRUE

\* ready_signal_received after the loop
ReadySignalReceived(out) == out = "ready"

\* find_data_port(exclude_port=port): None, or a port other than the excluded.
FindDataPort(excluded) == {NoPort} \cup (PlayPorts \ {excluded})

\* The handshake for a file: remote.wait_for_ready(timeout=12.0), or the
\* loop on the port the thread opens.
PlayHandshake ==
    /\ ppc = "handshake"
    /\ IF use_remote
         THEN /\ \E r \in RemoteWaitForReady :
                   IF r.ok
                     THEN /\ shake' = [shake EXCEPT !.on = "relay", !.ready = TRUE,
                                                    !.fin = r.fin, !.tries = 1]
                          /\ idx' = 1 /\ ppc' = "event"
                          /\ UNCHANGED is_playing
                     ELSE /\ shake' = [shake EXCEPT !.tries = 1, !.failed = TRUE]
                          /\ is_playing' = FALSE /\ ppc' = "finally"
                          /\ UNCHANGED idx
              /\ UNCHANGED ser
         ELSE \E out \in HandshakeLoop :
                /\ ser' = IF out = "noport" THEN "none" ELSE "open"
                /\ IF ReadySignalReceived(out)
                     THEN /\ shake' = [shake EXCEPT !.on = port,
                                                    !.ready = (out = "ready"),
                                                    !.fin = (out = "ready"),
                                                    !.tries = 1]
                          /\ idx' = 1 /\ ppc' = "event"
                          /\ UNCHANGED is_playing
                     ELSE IF out \in {"error", "noport"}
                       THEN /\ shake' = [shake EXCEPT !.tries = 1, !.failed = TRUE]
                            /\ is_playing' = FALSE /\ ppc' = "finally"
                            /\ UNCHANGED idx
                       ELSE /\ shake' = [shake EXCEPT !.tries = 1]
                            /\ is_playing' = (is_playing /\ out # "console")
                            /\ ppc' = "retry"
                            /\ UNCHANGED idx
    /\ UNCHANGED <<keys_currently_down, use_remote, playlist, round, file, todo,
                   sent, failed, failKeys, released, afterFail, sleepFalse,
                   exitsScheduled, port>>
    /\ UNCHANGED <<svars, dvars, ivars, nvars, rvars, cvars>>

\* if not ready_signal_received: the one retry, on the port find_data_port
\* gives, when it gives one; without PICO_READY there either, is_playing =
\* False, ser.close(), continue.
PlayRetry ==
    /\ ppc = "retry"
    /\ \E auto \in FindDataPort(port) :
         IF auto = NoPort
           THEN /\ shake' = [shake EXCEPT !.failed = TRUE]
                /\ is_playing' = FALSE /\ ser' = "closed" /\ ppc' = "finally"
                /\ UNCHANGED <<port, idx>>
           ELSE /\ port' = auto
                /\ \E out \in HandshakeLoop :
                     IF ReadySignalReceived(out)
                       THEN /\ shake' = [shake EXCEPT !.on = auto,
                                                      !.ready = (out = "ready"),
                                                      !.fin = (out = "ready"),
                                                      !.tries = 2]
                            /\ ser' = "open"
                            /\ idx' = 1 /\ ppc' = "event"
                            /\ UNCHANGED is_playing
                       ELSE /\ shake' = [shake EXCEPT !.tries = 2, !.failed = TRUE]
                            /\ is_playing' = FALSE /\ ser' = "closed"
                            /\ ppc' = "finally"
                            /\ UNCHANGED idx
    /\ UNCHANGED <<keys_currently_down, use_remote, playlist, round, file, todo,
                   sent, failed, failKeys, released, afterFail, sleepFalse,
                   exitsScheduled>>
    /\ UNCHANGED <<svars, dvars, ivars, nvars, rvars, cvars>>

\* for index, event in enumerate(events): stop check and focus check.
PlayEvent ==
    /\ ppc = "event"
    /\ IF idx > Len(playlist[file].events) \/ ~is_playing
         THEN ppc' = "finally" /\ UNCHANGED is_playing
         ELSE \/ is_playing' = FALSE /\ ppc' = "finally"
              \/ ppc' = (IF idx > 1 THEN "sleep" ELSE "send")
                 /\ UNCHANGED is_playing
    /\ UNCHANGED <<keys_currently_down, use_remote, playlist, round, file, ser,
                   idx, todo, histp>>
    /\ UNCHANGED <<svars, dvars, ivars, nvars, rvars, cvars>>

\* What interruptible_sleep can return: True when no poll finds is_playing
\* False (none does while it is True, and a delay that has already elapsed
\* is not polled at all), False at a poll that finds it False.
InterruptibleSleep(playing) == IF playing THEN {TRUE} ELSE {TRUE, FALSE}

AfterSleepSends(slept) == "send"

\* if not self.interruptible_sleep(delay): break
AfterSleep(slept) == IF slept THEN "send" ELSE "finally"

\* The delay before an event that is not the first of its file.
PlaySleep ==
    /\ ppc = "sleep"
    /\ \E slept \in InterruptibleSleep(is_playing) :
         /\ ppc' = AfterSleep(slept)
         /\ sleepFalse' = (sleepFalse \/ ~slept)
    /\ UNCHANGED <<is_playing, keys_currently_down, use_remote, playlist, round,
                   file, ser, idx, todo, sent, failed, failKeys, released,
                   afterFail, exitsScheduled, port, shake>>
    /\ UNCHANGED <<svars, dvars, ivars, nvars, rvars, cvars>>

\* Send the event and wait for its ACK; update keys_currently_down.
PlaySend ==
    /\ ppc = "send"
    /\ LET e == playlist[file].events[idx] IN
       \E out \in SendOutcomes(use_remote) :
         /\ sent' = IF out \in {"ack", "noack"} THEN Append(sent, e) ELSE sent
         /\ afterFail' = IF failed THEN afterFail + 1 ELSE afterFail
         /\ IF out = "ack"
              THEN /\ keys_currently_down' = KeysAfter(keys_currently_down, e)
                   /\ idx' = idx + 1
                   /\ ppc' = "event"
                   /\ UNCHANGED <<is_playing, failed, failKeys>>
              ELSE /\ is_playing' = FALSE
                   /\ ppc' = "finally"
                   /\ failed' = (failed \/ out # "error")
                   /\ failKeys' = IF ~failed /\ out # "error"
                                    THEN keys_currently_down ELSE failKeys
                   /\ UNCHANGED <<keys_currently_down, idx>>
    /\ UNCHANGED <<use_remote, playlist, round, file, ser, todo, released,
                   sleepFalse, exitsScheduled, port, shake>>
    /\ UNCHANGED <<svars, dvars, ivars, nvars, rvars, cvars>>

\* finally: if self.app.keys_currently_down: for key in list(...)
PlayFinally ==
    /\ ppc = "finally"
    /\ IF keys_currently_down # {}
         THEN todo' \in Orderings(keys_currently_down) /\ ppc' = "release"
         ELSE todo' = <<>> /\ ppc' = "closeport"
    /\ UNCHANGED <<is_playing, keys_currently_down, use_remote, playlist, round,
                   file, ser, idx, histp>>
    /\ UNCHANGED <<svars, dvars, ivars, nvars, rvars, cvars>>

\* One pass of the release loop: send up|key and wait for the ACK (either
\* result is only logged); after the last key keys_currently_down.clear().
\* An exception (no port, closed port, failed write) ends the cleanup.
PlayRelease ==
    /\ ppc = "release"
    /\ IF todo = <<>>
         THEN /\ keys_currently_down' = {}
              /\ ppc' = "closeport"
              /\ UNCHANGED <<todo, sent, released>>
         ELSE \/ /\ use_remote \/ ser = "open"
                 /\ \E out \in SendOutcomes(use_remote) \ {"error"} :
                      sent' = IF out \in {"ack", "noack"}
                                THEN Append(sent, [type |-> "up", key |-> Head(todo)])
                                ELSE sent
                 /\ released' = IF failed THEN released \cup {Head(todo)} ELSE released
                 /\ todo' = Tail(todo)
                 /\ UNCHANGED <<keys_currently_down, ppc>>
              \/ /\ ~use_remote
                 /\ ppc' = "closeport"
                 /\ UNCHANGED <<keys_currently_down, todo, sent, released>>
    /\ UNCHANGED <<is_playing, use_remote, playlist, round, file, ser, idx,
                   failed, failKeys, afterFail, sleepFalse, exitsScheduled,
                   port, shake>>
    /\ UNCHANGED <<svars, dvars, ivars, nvars, rvars, cvars>>

\* finally: ser.close(); the for loop moves to the next file.
PlayClosePort ==
    /\ ppc = "closeport"
    /\ ser' = IF ser = "open" THEN "closed" ELSE ser
    /\ file' = file + 1
    /\ todo' = <<>>
    /\ ppc' = "for"
    /\ UNCHANGED <<is_playing, keys_currently_down, use_remote, playlist, round,
                   idx, histp>>
    /\ UNCHANGED <<svars, dvars, ivars, nvars, rvars, cvars>>

\* root.after(0, on_macro_thread_exit): is_playing = False
OnMacroThreadExit ==
    /\ ppc = "exit"
    /\ ppc' = "stopped"
    /\ is_playing' = FALSE
    /\ UNCHANGED <<keys_currently_down, use_remote, playlist, round, file, ser,
                   idx, todo, histp>>
    /\ UNCHANGED <<svars, dvars, ivars, nvars, rvars, cvars>>

\* stop_macro (the user, the relay's macro|stop): is_playing = False
StopMacro ==
    /\ ppc \notin {"off", "start", "stopped"}
    /\ is_playing
    /\ is_playing' = FALSE
    /\ UNCHANGED <<ppc, keys_currently_down, use_remote, playlist, round, file,
                   ser, idx, todo, histp>>
    /\ UNCHANGED <<svars, dvars, ivars, nvars, rvars, cvars>>

NextPlay ==
    \/ PlayStart \/ PlayWhile \/ PlayFor \/ PlayHandshake \/ PlayRetry
    \/ PlayEvent
    \/ PlaySleep \/ PlaySend \/ PlayFinally \/ PlayRelease \/ PlayClosePort
    \/ OnMacroThreadExit \/ StopMacro

SpecPlay == InitPlay /\ [][NextPlay]_vars

\* ------------------------------------------------------------------------
\* SerialManager.discover_data_port and _probe_for_ready
\* ------------------------------------------------------------------------
\* str.lower() on the lines a device may emit.
Lower(line) ==
    CASE line = "PICO_READY" -> "pico_ready"
      [] line = "Adafruit CircuitPython" -> "adafruit circuitpython"
      [] line = "Press any key to enter the REPL" ->
             "press any key to enter the repl"
      [] OTHER -> line

\* The console test of the probe, on the lower-case line:
\* "circuitpython" in lower, "repl" in lower, lower.startswith(">>>").
IsBanner(lower) ==
    \/ lower \in {"adafruit circuitpython"}
    \/ lower \in {"press any key to enter the repl"}
    \/ lower \in {">>>"}

\* What a device emits while it is probed.
Scripts == UNION {[1..n -> DevLines] : n \in 0..MaxScript}

\* if exclude_port and port == exclude_port: continue
SkipsNone(p, exclude) == FALSE
Skips(p, exclude) == exclude # 0 /\ p = exclude

\* return bool(got_ready and not found_console)
ProbeVerdict(got_ready, found_console) == got_ready /\ ~found_console

\* finally: ser.close(), whatever the probe returned.
ClosePortOnMiss(open, p, verdict) == IF verdict THEN open ELSE open \ {p}
ClosePort(open, p, verdict) == open \ {p}

\* ser.readline(): the next line of the device, "" once it is silent.
NextLine(p) ==
    IF dstat[p].pos < Len(dstat[p].script)
    THEN dstat[p].script[dstat[p].pos + 1]
    ELSE ""

AfterRead(p) ==
    [dstat EXCEPT ![p].pos =
        IF dstat[p].pos < Len(dstat[p].script) THEN @ + 1 ELSE @]

\* History of a candidate once its port is closed: what its device would
\* have emitted afterwards is forgotten.
Closed(p) ==
    [dstat EXCEPT ![p].closes = @ + 1,
                  ![p].script = SubSeq(@, 1, dstat[p].pos)]

\* discover_data_port(exclude_port): enumerate the candidates.
DiscCall(ex) ==
    /\ disc.pc = "idle"
    /\ disc' = [disc EXCEPT !.pc = "next", !.exclude = ex, !.i = 1]
    /\ UNCHANGED <<dstat, dopen, svars, pvars, ivars, nvars, rvars, cvars>>

\* The for loop's head: the end of the list, the excluded port, or a port
\* to open.
DiscNext ==
    /\ disc.pc = "next"
    /\ IF disc.i > NumPorts
       THEN /\ disc' = [disc EXCEPT !.pc = "done", !.result = 0]
            /\ UNCHANGED dstat
       ELSE IF Skips(disc.i, disc.exclude)
       THEN /\ disc' = [disc EXCEPT !.i = @ + 1]
            /\ dstat' = [dstat EXCEPT ![disc.i].tried = "excluded"]
       ELSE /\ disc' = [disc EXCEPT !.pc = "open"]
            /\ UNCHANGED dstat
    /\ UNCHANGED <<dopen, svars, pvars, ivars, nvars, rvars, cvars>>

\* serial.Serial(port, ...) succeeds, then _prepare_serial and the start of
\* the probe; the device behind the port emits the lines of script.
DiscOpen(script) ==
    /\ disc.pc = "open"
    /\ dopen' = dopen \cup {disc.i}
    /\ dstat' = [dstat EXCEPT ![disc.i].tried = "opened",
                              ![disc.i].script = script]
    /\ disc' = [disc EXCEPT !.pc = "loop1", !.got_ready = FALSE,
                            !.found_console = FALSE, !.read_once = FALSE]
    /\ UNCHANGED <<svars, pvars, ivars, nvars, rvars, cvars>>

\* serial.Serial(port, ...) raises: continue.
DiscOpenFails ==
    /\ disc.pc = "open"
    /\ dstat' = [dstat EXCEPT ![disc.i].tried = "openfail"]
    /\ disc' = [disc EXCEPT !.pc = "next", !.i = @ + 1]
    /\ UNCHANGED <<dopen, svars, pvars, ivars, nvars, rvars, cvars>>

\* One iteration of the passive window (1.0 s).
ProbeRead1 ==
    /\ disc.pc = "loop1"
    /\ LET line == NextLine(disc.i) IN
       /\ dstat' = AfterRead(disc.i)
       /\ disc' =
            IF line = "" THEN [disc EXCEPT !.read_once = TRUE]
            ELSE IF IsBanner(Lower(line))
            THEN [disc EXCEPT !.found_console = TRUE, !.pc = "between"]
            ELSE IF line = "PICO_READY"
            THEN [disc EXCEPT !.got_ready = TRUE, !.pc = "between"]
            ELSE [disc EXCEPT !.read_once = TRUE]
    /\ UNCHANGED <<dopen, svars, pvars, ivars, nvars, rvars, cvars>>

\* One iteration of the window after the probe (1.5 s).
ProbeRead2 ==
    /\ disc.pc = "loop2"
    /\ LET line == NextLine(disc.i) IN
       /\ dstat' = AfterRead(disc.i)
       /\ disc' =
            IF line = "PICO_READY"
            THEN [disc EXCEPT !.got_ready = TRUE, !.pc = "ret"]
            ELSE IF line # "" /\ IsBanner(Lower(line))
            THEN [disc EXCEPT !.found_console = TRUE, !.pc = "ret"]
            ELSE [disc EXCEPT !.read_once = TRUE]
    /\ UNCHANGED <<dopen, svars, pvars, ivars, nvars, rvars, cvars>>

\* ser.readline() raises: break.
ProbeReadRaises ==
    /\ disc.pc \in {"loop1", "loop2"}
    /\ dstat' = [dstat EXCEPT ![disc.i].errs = 1]
    /\ disc' = [disc EXCEPT !.pc = IF disc.pc = "loop1" THEN "between" ELSE "ret"]
    /\ UNCHANGED <<dopen, svars, pvars, ivars, nvars, rvars, cvars>>

\* The window is over (a window lasts longer than one readline, which
\* times out after 0.5 s).
ProbeWindowEnds ==
    /\ disc.pc \in {"loop1", "loop2"}
    /\ disc.read_once
    /\ disc' = [disc EXCEPT !.pc = IF disc.pc = "loop1" THEN "between" ELSE "ret"]
    /\ UNCHANGED <<dstat, dopen, svars, pvars, ivars, nvars, rvars, cvars>>

\* if not got_ready and not found_console:
NeedsProbeUnlessReady(got_ready, found_console) == ~got_ready
NeedsProbe(got_ready, found_console) == ~got_ready /\ ~found_console

\* After the passive window: write hello|handshake if the window decided
\* nothing.
ProbeHello ==
    /\ disc.pc = "between"
    /\ IF NeedsProbe(disc.got_ready, disc.found_console)
       THEN /\ dstat' = [dstat EXCEPT ![disc.i].wrote = @ + 1]
            /\ disc' = [disc EXCEPT !.pc = "loop2", !.read_once = FALSE]
       ELSE /\ disc' = [disc EXCEPT !.pc = "ret"]
            /\ UNCHANGED dstat
    /\ UNCHANGED <<dopen, svars, pvars, ivars, nvars, rvars, cvars>>

\* The write of the probe raises: pass.
ProbeHelloFails ==
    /\ disc.pc = "between"
    /\ NeedsProbe(disc.got_ready, disc.found_console)
    /\ disc' = [disc EXCEPT !.pc = "loop2", !.read_once = FALSE]
    /\ UNCHANGED <<dstat, dopen, svars, pvars, ivars, nvars, rvars, cvars>>

\* _probe_for_ready returns; finally: ser.close(); return port or go on.
DiscProbeReturns ==
    /\ disc.pc = "ret"
    /\ LET verdict == ProbeVerdict(disc.got_ready, disc.found_console) IN
       /\ dopen' = ClosePort(dopen, disc.i, verdict)
       /\ dstat' = Closed(disc.i)
       /\ disc' = IF verdict
                  THEN [disc EXCEPT !.pc = "done", !.result = disc.i]
                  ELSE [disc EXCEPT !.pc = "next", !.i = @ + 1]
    /\ UNCHANGED <<svars, pvars, ivars, nvars, rvars, cvars>>

\* An exception leaves the probe (none of its own handlers catches it):
\* finally: ser.close(), and discover_data_port raises.
DiscProbeRaises ==
    /\ disc.pc \in {"loop1", "loop2"}
    /\ dopen' = ClosePort(dopen, disc.i, FALSE)
    /\ dstat' = Closed(disc.i)
    /\ disc' = [disc EXCEPT !.pc = "done", !.result = 0, !.raised = TRUE]
    /\ UNCHANGED <<svars, pvars, ivars, nvars, rvars, cvars>>

NextDisc ==
    \/ \E ex \in 0..NumPorts : DiscCall(ex)
    \/ DiscNext
    \/ \E script \in Scripts : DiscOpen(script)
    \/ DiscOpenFails
    \/ ProbeRead1
    \/ ProbeRead2
    \/ ProbeReadRaises
    \/ ProbeWindowEnds
    \/ ProbeHello
    \/ ProbeHelloFails
    \/ DiscProbeReturns
    \/ DiscProbeRaises

SpecDisc == Init /\ [][NextDisc]_vars

\* ------------------------------------------------------------------------
\* The peripheral's main loop (CIRCUITPY/code.py)
\* ------------------------------------------------------------------------
\* Names of KEY_MAP and of MOUSE_MAP that the model uses.
KEY_MAP == {"a", "up"}
MOUSE_MAP == {"left", "right", "middle"}

\* A command line as its '|'-separated fields (command_line.split('|')).
PicoCmds ==
    {<<"hello">>, <<"hello", "handshake">>,
     <<"hid", "key", "down", "a">>, <<"HID", "KEY", "UP", "A">>,
     <<"hid", "key", "down", "nonexistent">>, <<"hid", "key", "tap", "a">>,
     <<"hid", "mouse", "down", "left">>,
     <<"hid", "move", "3", "0">>, <<"hid", "move", "x", "3">>,
     <<"hid", "scroll", "3", "0">>,
     <<"down", "up">>, <<"status">>}

\* The bytes of the channel: a piece of the text of a line (some of its
\* fields), or its newline.  bad marks bytes that are not valid UTF-8; conn
\* is the connection the bytes were written on (history).
Text(parts) == [nl |-> FALSE, bad |-> FALSE, parts |-> parts, conn |-> 0]
BadText == [nl |-> FALSE, bad |-> TRUE, parts |-> <<>>, conn |-> 0]
NewLine == [nl |-> TRUE, bad |-> FALSE, parts |-> <<>>, conn |-> 0]

\* What the host may write as one line: a command (in one piece, or in two
\* pieces that can arrive in different reads), an empty line, or bytes that
\* do not decode.
HostLines ==
    {<<Text(c), NewLine>> : c \in PicoCmds}
        \cup {<<Text(<<"hid", "key">>), Text(<<"down", "a">>), NewLine>>}
        \cup {<<NewLine>>, <<BadText, NewLine>>}

\* The lines the host writes where only the connection and the beacon matter.
BeaconLines ==
    {<<Text(<<"hello", "handshake">>), NewLine>>,
     <<Text(<<"hid", "key", "down", "a">>), NewLine>>,
     <<NewLine>>}

RECURSIVE Joined(_)
\* The fields of the text made of the pieces in buf.
Joined(buf) == IF buf = <<>> THEN <<>> ELSE Head(buf).parts \o Joined(Tail(buf))

\* The command the host wrote as bytes (<<"?">> if the bytes do not decode).
HostCommand(bytes) ==
    IF \E k \in 1..Len(bytes) : bytes[k].bad THEN <<"?">> ELSE Joined(bytes)

\* str.lower() on the fields above.
LowerField(f) ==
    CASE f = "HID" -> "hid"
      [] f = "KEY" -> "key"
      [] f = "UP" -> "up"
      [] f = "A" -> "a"
      [] OTHER -> f

\* int(text): the value, or a ValueError.
IsIntText(f) == f \in {"0", "3"}
IntOf(f) == IF f = "3" THEN 3 ELSE 0

\* The handshake test of the main loop.
IsHandshakeBare(parts) == Len(parts) = 1 /\ LowerField(parts[1]) = "hello"
IsHandshake(parts) ==
    \/ Len(parts) = 1 /\ LowerField(parts[1]) = "hello"
    \/ /\ Len(parts) = 2 /\ LowerField(parts[1]) = "hello"
       /\ LowerField(parts[2]) = "handshake"

NoOp == [act |-> "none", arg |-> ""]

\* New format hid|<kind>|<action>|<value>: the HID call the line leads to.
HidOp(parts, mouse) ==
    IF Len(parts) >= 4 /\ LowerField(parts[1]) = "hid"
    THEN LET kind == LowerField(parts[2])
             action == LowerField(parts[3])
             name == LowerField(parts[4])
         IN  IF kind = "key"
             THEN IF name \in KEY_MAP /\ action = "down"
                  THEN [act |-> "press", arg |-> name]
                  ELSE IF name \in KEY_MAP /\ action = "up"
                  THEN [act |-> "release", arg |-> name]
                  ELSE NoOp
             ELSE IF kind = "mouse" /\ mouse
             THEN IF name \in MOUSE_MAP /\ action = "down"
                  THEN [act |-> "press", arg |-> name]
                  ELSE IF name \in MOUSE_MAP /\ action = "up"
                  THEN [act |-> "release", arg |-> name]
                  ELSE NoOp
             ELSE IF kind = "move" /\ mouse
             THEN IF /\ IsIntText(parts[3]) /\ IsIntText(parts[4])
                     /\ (IntOf(parts[3]) # 0 \/ IntOf(parts[4]) # 0)
                  THEN [act |-> "move", arg |-> ""]
                  ELSE NoOp
             ELSE IF kind = "scroll" /\ mouse
             THEN IF /\ IsIntText(parts[3]) /\ IsIntText(parts[4])
                     /\ IntOf(parts[4]) # 0
                  THEN [act |-> "wheel", arg |-> ""]
                  ELSE NoOp
             ELSE NoOp
    ELSE NoOp

\* Legacy format down|<name>, up|<name>.
LegacyOp(parts) ==
    IF Len(parts) = 2 /\ LowerField(parts[2]) \in KEY_MAP
    THEN IF LowerField(parts[1]) = "down"
         THEN [act |-> "press", arg |-> LowerField(parts[2])]
         ELSE IF LowerField(parts[1]) = "up"
         THEN [act |-> "release", arg |-> LowerField(parts[2])]
         ELSE NoOp
    ELSE NoOp

\* The HID call of a command line: the new format first, then the legacy one.
Dispatch(parts, mouse) ==
    IF HidOp(parts, mouse) # NoOp THEN HidOp(parts, mouse) ELSE LegacyOp(parts)

\* The reply written for a command: ACK only if it was handled.
ReplyFor(handled) == IF handled THEN "ACK" ELSE "NACK"

\* The pressed keys and buttons after a HID call.
HidAfter(down, op) ==
    IF op.act = "press" THEN down \cup {op.arg}
    ELSE IF op.act = "release" THEN down \ {op.arg}
    ELSE down

\* b"\n" in rx_buffer, and rx_buffer.split(b"\n", 1).
HasLine(buf) == \E k \in 1..Len(buf) : buf[k].nl
FirstNewLine(buf) ==
    CHOOSE k \in 1..Len(buf) : buf[k].nl /\ \A j \in 1..(k - 1) : ~buf[j].nl
LineOf(buf) == SubSeq(buf, 1, FirstNewLine(buf) - 1)
RestOf(buf) == SubSeq(buf, FirstNewLine(buf) + 1, Len(buf))

\* The board after boot: Mouse(usb_hid.devices) may have failed (mouse = None).
PicoInit ==
    /\ pico \in {[pc |-> "top", connected |-> FALSE, data_was_connected |-> FALSE,
                  commands_seen |-> FALSE, beacon_due |-> FALSE, alive |-> TRUE,
                  mouse |-> m, conn |-> 0, hostlog |-> <<>>,
                  seconds |-> 0] : m \in BOOLEAN}
    /\ usb_in = <<>>
    /\ rx_buffer = <<>>
    /\ hid_down = {}
    /\ replies = <<>>
    /\ plines = <<>>

InitPico ==
    /\ SessionInit /\ PlayIdle /\ DiscIdle /\ PicoInit /\ NormIdle /\ NoReturn
    /\ CountInit

\* The host opens the data channel (usb_cdc.data.connected becomes True).
HostConnects ==
    /\ ~pico.connected
    /\ pico' = [pico EXCEPT !.connected = TRUE, !.conn = @ + 1]
    /\ UNCHANGED <<usb_in, rx_buffer, hid_down, replies, plines>>
    /\ UNCHANGED <<svars, pvars, dvars, nvars, rvars, cvars>>

\* The host closes the data channel; it will open it again.
HostDisconnects(max) ==
    /\ pico.connected
    /\ pico.conn < max
    /\ pico' = [pico EXCEPT !.connected = FALSE]
    /\ UNCHANGED <<usb_in, rx_buffer, hid_down, replies, plines>>
    /\ UNCHANGED <<svars, pvars, dvars, nvars, rvars, cvars>>

\* The host writes one line to the data channel.
HostWrites(bytes, max) ==
    /\ pico.connected
    /\ Len(pico.hostlog) < max
    /\ pico' = [pico EXCEPT !.hostlog = Append(@, HostCommand(bytes))]
    /\ usb_in' = usb_in \o [k \in 1..Len(bytes) |->
                                [bytes[k] EXCEPT !.conn = pico.conn]]
    /\ UNCHANGED <<rx_buffer, hid_down, replies, plines>>
    /\ UNCHANGED <<svars, pvars, dvars, nvars, rvars, cvars>>

\* One second has passed since last_ready_sent.
SecondElapses(max) ==
    /\ pico.alive
    /\ ~pico.beacon_due
    /\ pico.seconds < max
    /\ pico' = [pico EXCEPT !.beacon_due = TRUE, !.seconds = @ + 1]
    /\ UNCHANGED <<usb_in, rx_buffer, hid_down, replies, plines>>
    /\ UNCHANGED <<svars, pvars, dvars, nvars, rvars, cvars>>

\* A line written to usb_cdc.data: the command line it answers (0: none),
\* why it was written, and the connection at that moment (history).
Reply(n, text, why) == [for |-> n, text |-> text, why |-> why, conn |-> pico.conn]

\* The head of one iteration of the main loop: the connection edge, the
\* periodic PICO_READY, and the read of the k bytes that have arrived.
PicoPoll(k) ==
    /\ pico.alive /\ pico.pc = "top"
    /\ k \in 0..Len(usb_in)
    /\ LET edge == pico.connected /\ ~pico.data_was_connected
           seen == IF edge THEN FALSE ELSE pico.commands_seen
           due == IF edge THEN FALSE ELSE pico.beacon_due
           beacon == pico.connected /\ ~seen /\ due
       IN  /\ replies' = replies
                  \o (IF edge THEN <<Reply(0, "PICO_READY", "connect")>> ELSE <<>>)
                  \o (IF beacon THEN <<Reply(0, "PICO_READY", "beacon")>> ELSE <<>>)
           /\ pico' = [pico EXCEPT !.data_was_connected = pico.connected,
                                   !.commands_seen = seen,
                                   !.beacon_due = IF beacon THEN FALSE ELSE due,
                                   !.pc = IF k > 0 THEN "lines" ELSE "top"]
    /\ rx_buffer' = rx_buffer \o SubSeq(usb_in, 1, k)
    /\ usb_in' = SubSeq(usb_in, k + 1, Len(usb_in))
    /\ UNCHANGED <<hid_down, plines>>
    /\ UNCHANGED <<svars, pvars, dvars, nvars, rvars, cvars>>

\* The text of the first line of rx_buffer decodes.
Decodes == \A k \in 1..Len(LineOf(rx_buffer)) : ~LineOf(rx_buffer)[k].bad

\* command_line of the first line of rx_buffer (<<>> if it is empty).
CommandLine == Joined(LineOf(rx_buffer))

\* The connection the first line of rx_buffer was written on.
LineConn == rx_buffer[FirstNewLine(rx_buffer)].conn

\* One iteration of "while b'\n' in rx_buffer": an empty line, a handshake,
\* or a command whose HID call (if any) returns.
PicoLine ==
    /\ pico.alive /\ pico.pc = "lines"
    /\ HasLine(rx_buffer) /\ Decodes
    /\ rx_buffer' = RestOf(rx_buffer)
    /\ LET parts == CommandLine
           op == Dispatch(parts, pico.mouse)
           n == Len(plines) + 1
       IN  IF parts = <<>>
           THEN UNCHANGED <<pico, hid_down, replies, plines>>
           ELSE IF IsHandshake(parts)
           THEN /\ replies' = Append(replies, Reply(n, "PICO_READY", "reply"))
                /\ pico' = [pico EXCEPT !.commands_seen = TRUE]
                /\ plines' = Append(plines, [parts |-> parts, op |-> NoOp,
                                             raised |-> FALSE, conn |-> LineConn])
                /\ UNCHANGED hid_down
           ELSE /\ hid_down' = HidAfter(hid_down, op)
                /\ replies' = Append(replies,
                                Reply(n, ReplyFor(op # NoOp), "reply"))
                /\ pico' = [pico EXCEPT !.commands_seen = TRUE]
                /\ plines' = Append(plines, [parts |-> parts, op |-> op,
                                             raised |-> FALSE, conn |-> LineConn])
    /\ UNCHANGED usb_in
    /\ UNCHANGED <<svars, pvars, dvars, nvars, rvars, cvars>>

\* The same iteration when the HID call raises (Keyboard.press with six keys
\* already down, a report the USB host does not take): the outer except
\* prints the error; nothing is written and commands_seen is not set.
PicoLineHidRaises ==
    /\ pico.alive /\ pico.pc = "lines"
    /\ HasLine(rx_buffer) /\ Decodes
    /\ CommandLine # <<>> /\ ~IsHandshake(CommandLine)
    /\ Dispatch(CommandLine, pico.mouse) # NoOp
    /\ rx_buffer' = RestOf(rx_buffer)
    /\ plines' = Append(plines, [parts |-> CommandLine,
                                 op |-> Dispatch(CommandLine, pico.mouse),
                                 raised |-> TRUE, conn |-> LineConn])
    /\ UNCHANGED <<pico, usb_in, hid_down, replies>>
    /\ UNCHANGED <<svars, pvars, dvars, nvars, rvars, cvars>>

\* line.decode("utf-8") raises outside the try: the main loop ends.
PicoLineDecodeFails ==
    /\ pico.alive /\ pico.pc = "lines"
    /\ HasLine(rx_buffer) /\ ~Decodes
    /\ rx_buffer' = RestOf(rx_buffer)
    /\ pico' = [pico EXCEPT !.alive = FALSE]
    /\ plines' = Append(plines, [parts |-> <<"?">>, op |-> NoOp, raised |-> TRUE,
                                 conn |-> LineConn])
    /\ UNCHANGED <<usb_in, hid_down, replies>>
    /\ UNCHANGED <<svars, pvars, dvars, nvars, rvars, cvars>>

\* No complete line is left in rx_buffer: time.sleep(0.01).
PicoSleep ==
    /\ pico.alive /\ pico.pc = "lines"
    /\ ~HasLine(rx_buffer)
    /\ pico' = [pico EXCEPT !.pc = "top"]
    /\ UNCHANGED <<usb_in, rx_buffer, hid_down, replies, plines>>
    /\ UNCHANGED <<svars, pvars, dvars, nvars, rvars, cvars>>

NextPico ==
    \/ HostConnects
    \/ \E bytes \in HostLines : HostWrites(bytes, MaxPicoLines)
    \/ SecondElapses(MaxSeconds)
    \/ \E k \in 0..MaxPicoLines * 3 : PicoPoll(k)
    \/ PicoLine
    \/ PicoLineHidRaises
    \/ PicoLineDecodeFails
    \/ PicoSleep

SpecPico == InitPico /\ [][NextPico]_vars

\* The main loop with a host that closes and reopens the data channel.
NextBeacon ==
    \/ HostConnects
    \/ HostDisconnects(MaxConnects)
    \/ \E bytes \in BeaconLines : HostWrites(bytes, MaxBeaconLines)
    \/ SecondElapses(MaxSeconds + 1)
    \/ \E k \in 0..MaxBeaconLines * 2 : PicoPoll(k)
    \/ PicoLine
    \/ PicoLineHidRaises
    \/ PicoSleep

SpecBeacon == InitPico /\ [][NextBeacon]_vars

\* ------------------------------------------------------------------------
\* A payload on its way to the channel
\* (SerialSession.send_text, RemoteControlServer.enqueue_hid_payload,
\*  SerialManager.normalize_payload)
\* ------------------------------------------------------------------------
\* A text is its "|"-separated fields (str.split("|"): the empty text has
\* one empty field) and whether blanks surround it.
NormFields == {"hid", "key", "scroll", "down", "a"}

Texts == {<<"">>} \cup UNION {[1..n -> NormFields] : n \in 1..MaxFields}

Payloads == [padded : BOOLEAN, parts : Texts]

\* str.strip()
Strip(t) == [t EXCEPT !.padded = FALSE]

\* not text
IsEmptyText(t) == ~t.padded /\ t.parts = <<"">>

\* text.startswith("hid|"), for a stripped text
StartsWithHid(t) == Len(t.parts) >= 2 /\ t.parts[1] = "hid"

\* "hid|" + text
PrefixHid(t) == [t EXCEPT !.parts = <<"hid">> \o t.parts]

\* len(parts) >= 3 and parts[0] in {"key", "mouse", "scroll"}
IsShorthand(t) ==
    Len(t.parts) >= 3 /\ t.parts[1] \in {"key", "mouse", "scroll"}

\* SerialManager.normalize_payload
NormalizePayload(payload) ==
    LET text == Strip(payload) IN
      IF IsEmptyText(text) THEN None
      ELSE IF StartsWithHid(text) THEN text
      ELSE IF IsShorthand(text) THEN PrefixHid(text)
      ELSE IF Len(text.parts) = 2 /\ text.parts[1] \in {"down", "up"} THEN text
      ELSE text

\* enqueue_hid_payload: the command it makes of a stripped, non-empty message.
RelayCommand(message) ==
    IF StartsWithHid(message) THEN message
    ELSE IF IsShorthand(message) THEN PrefixHid(message)
    ELSE message

\* text = payload + "\n": the line send_text hands to the writer.
Framed(payload) == [text |-> payload, eol |-> TRUE]

InitNorm ==
    /\ SessionInit /\ PlayIdle /\ DiscIdle /\ PicoIdle /\ NoReturn
    /\ CountInit
    /\ norm \in {NormStart(p) : p \in Payloads}

\* send_text: False for an empty payload; else the framed payload is put on
\* the writer queue.
SessionSendText ==
    /\ norm.pc = "idle"
    /\ norm' = IF IsEmptyText(norm.payload)
                 THEN [norm EXCEPT !.pc = "returned", !.via = "session",
                                   !.result = "false"]
                 ELSE [norm EXCEPT !.pc = "queued", !.via = "session",
                                   !.queued = <<Framed(norm.payload)>>]
    /\ UNCHANGED <<svars, pvars, dvars, ivars, rvars, cvars>>

\* The writer loop writes cmd.payload as queued and completes the command;
\* send_text returns cmd.success.
SessionWriterWrites ==
    /\ norm.pc = "queued"
    /\ norm' = [norm EXCEPT !.pc = "returned", !.wire = norm.queued,
                            !.queued = <<>>, !.result = "true"]
    /\ UNCHANGED <<svars, pvars, dvars, ivars, rvars, cvars>>

\* enqueue_hid_payload(payload, wait_ack=False): False for a blank payload;
\* else the command goes on the relay's queue and the call returns True.
EnqueueHidPayload ==
    /\ norm.pc = "idle"
    /\ LET message == Strip(norm.payload) IN
         norm' = IF IsEmptyText(message)
                   THEN [norm EXCEPT !.pc = "returned", !.via = "relay",
                                     !.result = "false"]
                   ELSE [norm EXCEPT !.pc = "relayed", !.via = "relay",
                                     !.queued = <<[text |-> RelayCommand(message),
                                                   eol |-> FALSE]>>,
                                     !.result = "true"]
    /\ UNCHANGED <<svars, pvars, dvars, ivars, rvars, cvars>>

\* normalize_payload(payload) is called.
NormalizeCall ==
    /\ norm.pc = "idle"
    /\ norm' = [norm EXCEPT !.pc = "normalized", !.via = "manager",
                            !.out = NormalizePayload(norm.payload)]
    /\ UNCHANGED <<svars, pvars, dvars, ivars, rvars, cvars>>

\* normalize_payload is called on what it returned.
NormalizeAgain ==
    /\ norm.pc = "normalized"
    /\ norm.out # None
    /\ norm' = [norm EXCEPT !.pc = "twice",
                            !.again = NormalizePayload(norm.out)]
    /\ UNCHANGED <<svars, pvars, dvars, ivars, rvars, cvars>>

NextNorm ==
    \/ SessionSendText
    \/ SessionWriterWrites
    \/ EnqueueHidPayload
    \/ NormalizeCall
    \/ NormalizeAgain

SpecNorm == InitNorm /\ [][NextNorm]_vars

\* ------------------------------------------------------------------------
\* CountdownService (picobot/countdown.py)
\* ------------------------------------------------------------------------
\* SpecCount: one thread calling start() up to MaxStarts times and stop() up
\* to MaxStops times (both hold the lock, so two calls never overlap), and
\* the worker threads start() creates, which take no lock.
MaxStarts == 2      \* start() calls (SpecCount)
MaxCount == 2       \* seconds of a countdown (SpecCount)
MaxStops == 2       \* stop() calls (SpecCount)

\* range(seconds, 0, -1)
Range(seconds) == [i \in 1..seconds |-> seconds + 1 - i]

\* self._thread.is_alive()
IsAlive == thread # 0 /\ workers[thread].pc # "done"

\* The worker start() creates.
Worker(seconds) ==
    [pc |-> "check", seconds |-> seconds, remaining |-> seconds,
     ticks |-> <<>>, completes |-> <<>>, saw |-> FALSE, stopped |-> FALSE,
     cut |-> FALSE]

\* stop(), first statement: if not self._thread or not is_alive(): reset.
StopReset ==
    /\ ~IsAlive
    /\ thread' = 0 /\ stop_event' = FALSE /\ is_running' = FALSE

\* stop() called by itself.
StopCall(max) ==
    /\ caller.pc = "idle" /\ caller.stops < max
    /\ \/ /\ StopReset
          /\ caller' = [caller EXCEPT !.stops = @ + 1]
       \/ /\ IsAlive
          /\ caller' = [caller EXCEPT !.stops = @ + 1, !.pc = "set",
                                      !.starting = FALSE]
          /\ UNCHANGED <<thread, stop_event, is_running>>
    /\ UNCHANGED workers
    /\ UNCHANGED <<svars, pvars, dvars, ivars, nvars, rvars>>

\* start(seconds): with self._lock: self.stop()
StartCall(seconds, max) ==
    /\ caller.pc = "idle" /\ Len(workers) < max
    /\ \/ /\ StopReset
          /\ caller' = [caller EXCEPT !.pc = "clear", !.seconds = seconds,
                                      !.starting = TRUE]
       \/ /\ IsAlive
          /\ caller' = [caller EXCEPT !.pc = "set", !.seconds = seconds,
                                      !.starting = TRUE]
          /\ UNCHANGED <<thread, stop_event, is_running>>
    /\ UNCHANGED workers
    /\ UNCHANGED <<svars, pvars, dvars, ivars, nvars, rvars>>

\* stop(): self._stop_event.set()
StopSet ==
    /\ caller.pc = "set"
    /\ stop_event' = TRUE
    /\ workers' = [workers EXCEPT ![thread].stopped = (workers[thread].pc # "done")]
    /\ caller' = [caller EXCEPT !.pc = IF caller.starting THEN "clear" ELSE "idle"]
    /\ UNCHANGED <<thread, is_running>>
    /\ UNCHANGED <<svars, pvars, dvars, ivars, nvars, rvars>>

\* start(): self._stop_event.clear()
StartClear ==
    /\ caller.pc = "clear"
    /\ stop_event' = FALSE
    /\ caller' = [caller EXCEPT !.pc = "running"]
    /\ UNCHANGED <<thread, is_running, workers>>
    /\ UNCHANGED <<svars, pvars, dvars, ivars, nvars, rvars>>

\* start(): self._is_running = True
StartRunning ==
    /\ caller.pc = "running"
    /\ is_running' = TRUE
    /\ caller' = [caller EXCEPT !.pc = "thread"]
    /\ UNCHANGED <<thread, stop_event, workers>>
    /\ UNCHANGED <<svars, pvars, dvars, ivars, nvars, rvars>>

\* start(): self._thread = thread; thread.start().  History: cut marks the
\* workers that were still in their loop.
StartThread ==
    /\ caller.pc = "thread"
    /\ workers' = Append([w \in 1..Len(workers) |->
                            [workers[w] EXCEPT !.cut =
                               @ \/ workers[w].pc \in {"check", "tick", "sleep"}]],
                         Worker(caller.seconds))
    /\ thread' = Len(workers) + 1
    /\ caller' = [caller EXCEPT !.pc = "idle", !.starting = FALSE]
    /\ UNCHANGED <<stop_event, is_running>>
    /\ UNCHANGED <<svars, pvars, dvars, ivars, nvars, rvars>>

LoopCheckIgnores(set) == "tick"

\* if self._stop_event.is_set(): ...; return
LoopCheck(set) == IF set THEN "finally" ELSE "tick"

\* for remaining in range(seconds, 0, -1): the stop check of a pass.
WorkerCheck(w) ==
    /\ w \in 1..Len(workers) /\ workers[w].pc = "check"
    /\ workers' = [workers EXCEPT
                     ![w].pc = LoopCheck(stop_event),
                     ![w].saw = stop_event,
                     ![w].completes = IF stop_event THEN Append(@, FALSE) ELSE @]
    /\ UNCHANGED <<caller, stop_event, thread, is_running>>
    /\ UNCHANGED <<svars, pvars, dvars, ivars, nvars, rvars>>

\* on_tick(remaining)
WorkerTick(w) ==
    /\ w \in 1..Len(workers) /\ workers[w].pc = "tick"
    /\ workers' = [workers EXCEPT ![w].pc = "sleep",
                                  ![w].ticks = Append(@, workers[w].remaining)]
    /\ UNCHANGED <<caller, stop_event, thread, is_running>>
    /\ UNCHANGED <<svars, pvars, dvars, ivars, nvars, rvars>>

\* time.sleep(1), and the next value of the range or its end.
WorkerSleep(w) ==
    /\ w \in 1..Len(workers) /\ workers[w].pc = "sleep"
    /\ workers' = [workers EXCEPT
                     ![w].remaining = @ - 1,
                     ![w].pc = IF workers[w].remaining > 1 THEN "check" ELSE "last"]
    /\ UNCHANGED <<caller, stop_event, thread, is_running>>
    /\ UNCHANGED <<svars, pvars, dvars, ivars, nvars, rvars>>

\* After the loop: if self._stop_event.is_set(): on_complete(False); return
WorkerLast(w) ==
    /\ w \in 1..Len(workers) /\ workers[w].pc = "last"
    /\ workers' = [workers EXCEPT
                     ![w].pc = IF stop_event THEN "finally" ELSE "notify",
                     ![w].saw = stop_event,
                     ![w].completes = IF stop_event THEN Append(@, FALSE) ELSE @]
    /\ UNCHANGED <<caller, stop_event, thread, is_running>>
    /\ UNCHANGED <<svars, pvars, dvars, ivars, nvars, rvars>>

\* The notification (its failure is caught), then on_complete(True).
WorkerComplete(w) ==
    /\ w \in 1..Len(workers) /\ workers[w].pc = "notify"
    /\ workers' = [workers EXCEPT ![w].pc = "finally",
                                  ![w].completes = Append(@, TRUE)]
    /\ UNCHANGED <<caller, stop_event, thread, is_running>>
    /\ UNCHANGED <<svars, pvars, dvars, ivars, nvars, rvars>>

\* finally: self._stop_event.clear()
WorkerFinally(w) ==
    /\ w \in 1..Len(workers) /\ workers[w].pc = "finally"
    /\ stop_event' = FALSE
    /\ workers' = [workers EXCEPT ![w].pc = "unset"]
    /\ UNCHANGED <<caller, thread, is_running>>
    /\ UNCHANGED <<svars, pvars, dvars, ivars, nvars, rvars>>

\* finally: self._is_running = False; the thread ends.
WorkerEnd(w) ==
    /\ w \in 1..Len(workers) /\ workers[w].pc = "unset"
    /\ is_running' = FALSE
    /\ workers' = [workers EXCEPT ![w].pc = "done"]
    /\ UNCHANGED <<caller, stop_event, thread>>
    /\ UNCHANGED <<svars, pvars, dvars, ivars, nvars, rvars>>

NextCount ==
    \/ \E n \in 1..MaxCount : StartCall(n, MaxStarts)
    \/ StopCall(MaxStops)
    \/ StopSet
    \/ StartClear
    \/ StartRunning
    \/ StartThread
    \/ \E w \in 1..MaxStarts : WorkerCheck(w)
    \/ \E w \in 1..MaxStarts : WorkerTick(w)
    \/ \E w \in 1..MaxStarts : WorkerSleep(w)
    \/ \E w \in 1..MaxStarts : WorkerLast(w)
    \/ \E w \in 1..MaxStarts : WorkerComplete(w)
    \/ \E w \in 1..MaxStarts : WorkerFinally(w)
    \/ \E w \in 1..MaxStarts : WorkerEnd(w)

SpecCount == Init /\ [][NextCount]_vars

\* SpecCountSolo: the same with SoloStarts start() calls, for what one
\* countdown does from start() to its end.
SoloStarts == 1     \* start() calls (SpecCountSolo)

NextCountSolo ==
    \/ \E n \in 1..MaxCount : StartCall(n, SoloStarts)
    \/ StopCall(MaxStops)
    \/ StopSet
    \/ StartClear
    \/ StartRunning
    \/ StartThread
    \/ \E w \in 1..SoloStarts : WorkerCheck(w)
    \/ \E w \in 1..SoloStarts : WorkerTick(w)
    \/ \E w \in 1..SoloStarts : WorkerSleep(w)
    \/ \E w \in 1..SoloStarts : WorkerLast(w)
    \/ \E w \in 1..SoloStarts : WorkerComplete(w)
    \/ \E w \in 1..SoloStarts : WorkerFinally(w)
    \/ \E w \in 1..SoloStarts : WorkerEnd(w)

SpecCountSolo == Init /\ [][NextCountSolo]_vars

\* ------------------------------------------------------------------------
\* Claims about the session
\* ------------------------------------------------------------------------
\* Position of command c in the sequence of written commands (0: not written).
WirePos(c) == IF InSeq(wire, c) THEN CHOOSE i \in 1..Len(wire) : wire[i] = c ELSE 0

\* The writer's ack wait of c ended by timeout and c has been completed.
TimedOut(c) == cmds[c].timed_out /\ cmds[c].completion

\* C1: when every command is sent with wait_ack=True, is written without
\* error and is answered by one ACK, the k-th ACK line read resolves the wait
\* of the k-th written command (or no wait at all, when that wait has already
\* ended), whatever other lines are interleaved.
C1_FifoCorrelation ==
    (\A c \in 1..Len(cmds) :
        cmds[c].wait_ack /\ cmds[c].payload = "key" /\ ~cmds[c].error)
      => \A k \in 1..Len(ackLog) :
           ackLog[k].res = 0 \/ (k <= Len(wire) /\ ackLog[k].res = wire[k])

\* C2: the pending-ACK FIFO never holds more than one waiter.
C2_OneInFlight == Len(ack_waiters) <= 1

\* C4: a wait-ack command that timed out returns False and its waiter is
\* removed, and no command returns True on account of an ACK the peripheral
\* emitted for a command that timed out.
C4_LateAckIsolated ==
    \A c \in 1..Len(cmds) :
      /\ TimedOut(c) => SendTextResult(c) = "false" /\ ~InSeq(ack_waiters, c)
      /\ (cmds[c].wait_ack /\ SendTextResult(c) = "true")
           => \A i \in 1..Len(cmds) :
                (i # c /\ cmds[i].timed_out) => cmds[c].acked_by # i

\* C5: a command whose ACK wait timed out returns False and is no longer in
\* the FIFO, and the ACK emitted in reply to a command written after it
\* resolves that later command (when read before that command's own timeout).
C5_TimeoutIsolation ==
    /\ \A c \in 1..Len(cmds) :
         TimedOut(c) => ~cmds[c].success /\ ~InSeq(ack_waiters, c)
    /\ \A k \in 1..Len(ackLog) :
         LET j == ackLog[k].of IN
           (/\ j # 0
            /\ cmds[j].wait_ack
            /\ ~cmds[j].timed_out
            /\ \E i \in 1..Len(cmds) :
                 cmds[i].timed_out /\ WirePos(i) # 0 /\ WirePos(i) < WirePos(j))
             => ackLog[k].res = j

\* C7: commands are written in the order send_text enqueued them (ids are
\* given in enqueue order), each at most once.
C7_WriteOrder ==
    \A i, j \in 1..Len(wire) : i < j => wire[i] < wire[j]

\* C7 witness: two commands enqueued by send_text have both been written.
C7_Witness == Len(wire) >= 2 /\ wire[1] # wire[2]

\* C8: every written wait-ack command had its waiter registered before the
\* write, and while the writer awaits the ACK of the written command the
\* waiter is in the FIFO for the reader to find.
C8_RegisterBeforeWrite ==
    /\ \A i \in 1..Len(wire) :
         cmds[wire[i]].wait_ack => cmds[wire[i]].ack_event # "none"
    /\ (wpc = "wait" /\ cmds[wcmd].ack_event = "clear") => InSeq(ack_waiters, wcmd)

\* C8 witness: a wait-ack command is written and awaited, its ACK is on its
\* way, and its waiter is registered.
C8_Witness ==
    /\ wpc = "wait"
    /\ InSeq(wire, wcmd)
    /\ InSeq(ack_waiters, wcmd)
    /\ \E i \in 1..Len(rx) : rx[i].kind = "ACK" /\ rx[i].of = wcmd

\* C9: once close() has finished shutting the loops down, no send_text call
\* that was in flight is still waiting for its ACK timeout.
C9_CloseCancelsInFlight ==
    shutdown_done => ~(wpc \in {"wait", "remove"} /\ ~cmds[wcmd].completion)

\* C10: however many close() calls are made, from whatever threads, the
\* channel is closed at most once.
C10_ClosedAtMostOnce == close_count <= 1

\* C14: a written command that the peripheral answered with NACK, the NACK
\* line having been read and delivered to the line observer, returns True
\* from send_text.
C14_NackReturnsTrue ==
    \A c \in 1..Len(cmds) :
      (cmds[c].wait_ack /\ cmds[c].handled = "NACK" /\ cmds[c].completion)
        => SendTextResult(c) = "true"

\* C15: a failed write surfaces as False to its caller, is not retried, and
\* closes the session: no command queued after the failed one is written;
\* and a reader loop that ended leaves the session not running.
C15_IoErrorCloses ==
    /\ \A c \in 1..Len(cmds) :
         cmds[c].error
           => /\ SendTextResult(c) = "false"
              /\ ~InSeq(wire, c)
              /\ \A i \in 1..Len(wire) : wire[i] < c
    /\ rpc = "done" => ~running

\* C24: a send_text call made with wait_ack=False for a non-empty payload,
\* once its command is on the writer queue, never returns False.
C24_NoWaitReturnsTrue ==
    \A c \in 1..Len(cmds) :
        ~cmds[c].wait_ack => SendTextResult(c) # "false"

\* An ACK line was read after c was written and before c's timeout elapsed.
AckReadInTime(c) == \E k \in 1..Len(ackLog) : ackLog[k].during = c

\* C26: a written wait-ack command whose send_text call has returned got
\* True if an ACK line was read after its write and before its timeout
\* elapsed, and False if none was.
C26_AckDecidesResult ==
    \A c \in 1..Len(cmds) :
        (cmds[c].wait_ack /\ WirePos(c) # 0 /\ cmds[c].completion)
          => (SendTextResult(c) = "true" <=> AckReadInTime(c))

\* C25: send_text writes a payload of three or more fields whose first field
\* is key, mouse or scroll prefixed with hid|, and writes unchanged a payload
\* that starts with hid| and a two-field down/up pair; normalizing a
\* normalized payload changes nothing.
C25_SendNormalizes ==
    /\ (norm.via = "session" /\ norm.wire # <<>> /\ ~norm.payload.padded) =>
          LET p == norm.payload.parts
              w == norm.wire[1].text.parts
          IN /\ (Len(p) >= 3 /\ p[1] \in {"key", "mouse", "scroll"})
                   => w = <<"hid">> \o p
             /\ (Len(p) >= 2 /\ p[1] = "hid") => w = p
             /\ (Len(p) = 2 /\ p[1] \in {"down", "up"}) => w = p
    /\ norm.pc = "twice" => norm.again = norm.out

\* C35: a wait-ack command whose write failed has no waiter left in the
\* pending-ACK FIFO once it is completed, and no ACK read afterwards
\* resolves it.
C35_FailedWriteLeavesNoWaiter ==
    /\ \A c \in 1..Len(cmds) :
          (cmds[c].error /\ cmds[c].completion) => ~InSeq(ack_waiters, c)
    /\ \A k \in 1..Len(ackLog) :
          ackLog[k].res # 0 => ~cmds[ackLog[k].res].error

\* C36: no command is written to the channel after the send_text call that
\* submitted it has returned.
C36_NoWriteAfterReturn ==
    [][wire' # wire => Pending(wire'[Len(wire')])]_vars

\* C39: every send_text call returns, whatever the interleaving with close()
\* and with the end of the loops, and a command the drain loop takes from
\* the queue is completed with success False.
C39_SendTextTerminates ==
    /\ \A c \in 1..LiveMaxCmds :
          (Len(cmds) >= c) ~> (\E r \in returned : r.cmd = c)
    /\ [][(wpc = "drain" /\ cmd_queue # <<>> /\ cmd_queue' = Tail(cmd_queue)
               /\ Head(cmd_queue) # 0)
            => /\ cmds'[Head(cmd_queue)].completion
               /\ ~cmds'[Head(cmd_queue)].success]_vars

\* C39 witness: a command still queued when close() stopped the writer was
\* completed by the drain and its send_text call returned False.
C39_Witness ==
    \E r \in returned :
        /\ r.completed /\ ~r.result
        /\ ~InSeq(wire, r.cmd) /\ ~cmds[r.cmd].error
        /\ wpc = "done"

\* C28: a line read by the reader loop changes the pending FIFO only when it
\* is an ACK and a waiter is pending (the oldest waiter is popped), and the
\* readiness state only when it is a PICO_READY (time recorded, event set);
\* an ACK read with the FIFO empty and any other line leave both unchanged,
\* and no line read stops the reader loop of a running session.
C28_ReaderFrame ==
    [][(rpc = "read" /\ rx # <<>> /\ rx' = Tail(rx)) =>
          /\ ack_waiters' = IF Head(rx).kind = "ACK" /\ ack_waiters # <<>>
                              THEN Tail(ack_waiters) ELSE ack_waiters
          /\ IF Head(rx).kind = "PICO_READY"
                THEN ready_event' /\ last_ready_time' = now
                ELSE UNCHANGED <<ready_event, last_ready_time>>
          /\ running' = running
          /\ running => rpc' = "read"]_vars

\* C28 witness: an ACK was read with the FIFO empty and a NACK was read while
\* a waiter was pending, and the reader is still reading.
C28_Witness ==
    /\ rpc = "read" /\ running
    /\ \E i \in 1..Len(ackLog) : ackLog[i].res = 0
    /\ \E c \in 1..Len(cmds) :
          /\ cmds[c].handled = "NACK"
          /\ \E k \in 1..Len(ack_waiters) : ack_waiters[k] = c

\* ------------------------------------------------------------------------
\* Claims about readiness
\* ------------------------------------------------------------------------
\* C11: a wait_for_ready call made less than 1 second after the last observed
\* PICO_READY returns True and sends no handshake probe.
C11_BeaconDebounce ==
    \A i \in 1..Len(calls) :
      calls[i].at - calls[i].seen < ReadyFresh
        => calls[i].result /\ calls[i].probes = 0

\* C11 witness: two calls made within 1 second of the same observed
\* PICO_READY have both returned.
C11_Witness ==
    \E i, j \in 1..Len(calls) :
      /\ i < j
      /\ calls[i].seen = calls[j].seen /\ calls[i].seen > 0
      /\ calls[i].at - calls[i].seen < ReadyFresh
      /\ calls[j].at - calls[j].seen < ReadyFresh

\* C12: wait_for_ready returns True only if a PICO_READY was observed less
\* than 1 second before the call or between the start of the call and its
\* deadline; a call that reached its deadline without one returned False.
C12_ReadyOnlyIfObserved ==
    \A i \in 1..Len(calls) :
      calls[i].result
        <=> \/ calls[i].at - calls[i].seen < ReadyFresh
            \/ /\ calls[i].got > 0
               /\ calls[i].at <= calls[i].got
               /\ calls[i].got <= calls[i].deadline

\* C12 witness: one call returned True on a PICO_READY observed during the
\* call and another returned False at its deadline.
C12_Witness ==
    \E i, j \in 1..Len(calls) :
      /\ calls[i].result /\ calls[i].probes > 0
      /\ ~calls[j].result

\* C13: on a freshly opened session whose peer answers every handshake, the
\* first wait_for_ready call eventually returns True.
C13_EventuallyReady == <>(Len(calls) >= 1 /\ calls[1].result)

\* C13 witness: the first call returned True after its own probe.
C13_Witness == Len(calls) >= 1 /\ calls[1].result /\ calls[1].probes > 0

C23_ProbePerSlice == wfr.pc = "wait" => wfr.probed

C37_NoReadyLost ==
    [][(wfr.pc # "idle" /\ calls' # calls /\ ~calls'[Len(calls')].result)
         => ~(wfr.at <= last_ready_time /\ last_ready_time < wfr.deadline)]_vars

\* The ACK lines of written wait-ack commands among the lines of buf.
AcksIn(buf) ==
    Cardinality({i \in 1..Len(buf) :
                   buf[i].kind = "ACK" /\ cmds[buf[i].of].wait_ack})

\* C38: no ACK the peripheral emitted for a written wait-ack command leaves
\* the input buffer other than by the reader loop reading it: the ACKs
\* waiting in the buffer and the ACKs read never get fewer together.
C38_ResetKeepsAcks ==
    [][AcksIn(rx') + Len(ackLog') >= AcksIn(rx) + Len(ackLog)]_vars

\* ------------------------------------------------------------------------
\* Claims about discovery
\* ------------------------------------------------------------------------
\* The device behind candidate p emits a console banner.
EmitsBanner(p) ==
    \E k \in 1..Len(dstat[p].script) : IsBanner(Lower(dstat[p].script[k]))

\* The probe of candidate p read a PICO_READY line / a console banner.
ObservedReady(p) ==
    \E k \in 1..dstat[p].pos : dstat[p].script[k] = "PICO_READY"

ObservedBanner(p) ==
    \E k \in 1..dstat[p].pos :
        dstat[p].script[k] \in {">>>", "Adafruit CircuitPython",
                                "Press any key to enter the REPL"}

\* C17: a candidate whose device emits a console banner during the probe is
\* never classified data-port, whether the banner comes before or after a
\* PICO_READY: _probe_for_ready does not return True for it and
\* discover_data_port does not return it.
C17_ConsoleNeverDataPort ==
    \A p \in 1..NumPorts :
        EmitsBanner(p) =>
            /\ ~(disc.pc = "ret" /\ disc.i = p
                    /\ ProbeVerdict(disc.got_ready, disc.found_console))
            /\ disc.result # p

\* Candidate p is one discover_data_port may return.
Qualifies(p) ==
    /\ p # disc.exclude
    /\ dstat[p].tried = "opened"
    /\ ObservedReady(p)
    /\ ~ObservedBanner(p)

\* C18: discover_data_port returns the first candidate, other than the
\* excluded port and the ports that failed to open, whose probe read a
\* PICO_READY and no console banner, and None (0) if there is none; with
\* COM1 emitting ">>>" then silence and COM2 emitting PICO_READY it returns
\* COM2.
C18_FirstReadyPortWins ==
    (disc.pc = "done" /\ ~disc.raised) =>
        /\ IF \E p \in 1..NumPorts : Qualifies(p)
           THEN /\ disc.result \in 1..NumPorts
                /\ Qualifies(disc.result)
                /\ \A q \in 1..(disc.result - 1) : ~Qualifies(q)
           ELSE disc.result = 0
        /\ ( /\ dstat[1].tried = "opened" /\ dstat[1].script = <<">>>">>
             /\ dstat[2].tried = "opened" /\ dstat[2].script = <<"PICO_READY">>
             /\ dstat[1].errs = 0 /\ dstat[2].errs = 0 )
           => disc.result = 2

\* C18 witness: COM1 answered ">>>", COM2 answered PICO_READY, and COM2 was
\* returned.
C18_Witness ==
    /\ disc.pc = "done" /\ disc.result = 2
    /\ dstat[1].script = <<">>>">> /\ dstat[1].pos = 1
    /\ dstat[2].script = <<"PICO_READY">> /\ dstat[2].pos = 1

\* C19: at most one candidate is open at any time, and when
\* discover_data_port has returned or raised, every port it opened has been
\* closed.
C19_NoPortLeftOpen ==
    /\ Cardinality(dopen) <= 1
    /\ disc.pc = "done" =>
          /\ dopen = {}
          /\ \A p \in 1..NumPorts :
                dstat[p].tried = "opened" => dstat[p].closes = 1

\* C19 witness: discovery returned a port after it had opened and closed an
\* earlier one.
C19_Witness ==
    /\ disc.pc = "done" /\ disc.result = 2
    /\ dstat[1].tried = "opened" /\ dstat[1].closes = 1
    /\ dstat[2].closes = 1 /\ dopen = {}

\* C19 witness of the exceptional exit: a probe raised and its port is closed.
C19_RaisedAndClosed ==
    disc.pc = "done" /\ disc.raised /\ dopen = {}

\* C29: the probe writes hello|handshake to a candidate at most once, after
\* the passive window, and only if no PICO_READY and no console banner has
\* been read from that candidate; so nothing is written to a candidate once
\* a banner has been read from it.
C29_OneProbeAfterSilence ==
    [][\A p \in 1..NumPorts :
          dstat'[p].wrote # dstat[p].wrote =>
              /\ dstat[p].wrote = 0 /\ dstat'[p].wrote = 1
              /\ disc.pc = "between" /\ disc.i = p
              /\ ~ObservedReady(p)
              /\ ~ObservedBanner(p)]_vars

\* C29 witness: a candidate that stayed silent in the passive window was
\* probed once and then answered PICO_READY.
C29_Witness ==
    \E p \in 1..NumPorts :
        /\ dstat[p].wrote = 1 /\ disc.i = p /\ disc.got_ready
        /\ dstat[p].script = <<"", "PICO_READY">> /\ dstat[p].pos = 2

\* ------------------------------------------------------------------------
\* The replies written for the n-th command line.
RepliesTo(n) == SelectSeq(replies, LAMBDA r : r.for = n)

\* C20: every non-empty line that is not a handshake is answered with exactly
\* one line, ACK if its HID call was executed and NACK otherwise.
C20_OneReplyPerLine ==
    \A n \in 1..Len(plines) :
        ~IsHandshake(plines[n].parts) =>
            /\ Len(RepliesTo(n)) = 1
            /\ RepliesTo(n)[1].text =
                  IF plines[n].op # NoOp /\ ~plines[n].raised
                  THEN "ACK" ELSE "NACK"

\* The handshake lines: hello, bare or followed by the field handshake.
HelloLines == {<<"hello">>, <<"hello", "handshake">>}

C22_NoBeaconAfterCommand ==
    [][\A k \in (Len(replies) + 1)..Len(replies') :
          replies'[k].why = "beacon" =>
              ~\E n \in 1..Len(plines) : plines[n].conn = replies'[k].conn]_vars

RECURSIVE CompleteCmds(_)
\* The non-empty commands of the complete lines among the bytes of buf, in
\* order; the bytes after the last newline do not count.
CompleteCmds(buf) ==
    IF ~HasLine(buf) THEN <<>>
    ELSE (IF LineOf(buf) = <<>> THEN <<>> ELSE <<HostCommand(LineOf(buf))>>)
             \o CompleteCmds(RestOf(buf))

\* The commands the host wrote, without the empty lines.
HostCmds == SelectSeq(pico.hostlog, LAMBDA c : c # <<>>)

\* The replies to command lines, in the order they were written.
Answers == SelectSeq(replies, LAMBDA r : r.for > 0)

\* C30: the command lines processed so far, followed by the complete lines
\* still in the buffers, are the commands the host wrote, each once and in
\* order, however the bytes were split across reads; no complete line is
\* left in rx_buffer when the interpreter has finished an iteration or has
\* stopped; and the processed lines that decode are answered one reply each,
\* in order.
C30_EachLineOnceInOrder ==
    /\ [n \in 1..Len(plines) |-> plines[n].parts]
           \o CompleteCmds(rx_buffer \o usb_in) = HostCmds
    /\ (pico.pc = "top" \/ ~pico.alive) => ~HasLine(rx_buffer)
    /\ [k \in 1..Len(Answers) |-> Answers[k].for]
           = SelectSeq([n \in 1..Len(plines) |-> n],
                       LAMBDA n : plines[n].parts # <<"?">>)

\* A processed line that is a valid command line: a handshake, or a command
\* the dispatch has a HID call for.
ValidLine(e) == IsHandshake(e.parts) \/ e.op # NoOp

\* C31: once the main loop has seen the data channel connected, it has
\* written PICO_READY for that connection, and as long as no valid command
\* line of that connection has been processed the loop is running with the
\* periodic PICO_READY still armed (commands_seen False).
C31_BeaconKeptUp ==
    (/\ pico.connected /\ pico.data_was_connected
     /\ \A i \in 1..Len(plines) :
           plines[i].conn = pico.conn => ~ValidLine(plines[i]))
      => /\ \E i \in 1..Len(replies) :
              replies[i].why = "connect" /\ replies[i].conn = pico.conn
         /\ pico.alive
         /\ ~pico.commands_seen

\* ------------------------------------------------------------------------
\* Claims about playback
\* ------------------------------------------------------------------------
\* Every down in s is followed by an up for the same key.
Matched(s) ==
    \A i \in 1..Len(s) :
      s[i].type = "down"
        => \E j \in (i + 1)..Len(s) : s[j].type = "up" /\ s[j].key = s[i].key

\* C3: when play_macro_thread has finished a macro file, every key-down
\* written to the peripheral for it has been followed by a key-up for the
\* same key.
C3_DownFollowedByUp == ppc = "closeport" => Matched(sent)

\* C6: after an event's ACK-waited send failed and the cleanup is over, no
\* further macro event has been sent, an up was sent for every key that was
\* in keys_currently_down, keys_currently_down is empty and is_playing is
\* False.
C6_ReleaseOnAckFailure ==
    (failed /\ ppc \in {"closeport", "for", "while", "exit", "stopped"})
      => /\ afterFail = 0
         /\ failKeys \subseteq released
         /\ keys_currently_down = {}
         /\ ~is_playing

PortInUse == IF use_remote THEN "relay" ELSE port

IsPrefix(s, t) == Len(s) <= Len(t) /\ \A i \in 1..Len(s) : s[i] = t[i]

\* on_tick was called with the values of the range in order, and
\* on_complete at most once; a worker that has ended without finding the
\* stop event set has ticked N, N-1, ..., 1 and completed with True.
CountsDown(w) ==
    /\ IsPrefix(workers[w].ticks, Range(workers[w].seconds))
    /\ Len(workers[w].completes) <= 1
    /\ workers[w].completes = <<TRUE>> => workers[w].ticks = Range(workers[w].seconds)
    /\ workers[w].pc = "done" => Len(workers[w].completes) = 1
    /\ (workers[w].pc = "done" /\ ~workers[w].saw) => workers[w].completes = <<TRUE>>

\* C33: a countdown of N seconds ticks N, N-1, ..., 1 in order and then
\* completes with True exactly once; if stop() set the stop event before
\* the worker finished, the worker makes no tick after it has observed the
\* stop and completes with False exactly once.
C33_TicksThenComplete ==
    /\ [](\A w \in 1..Len(workers) :
            /\ CountsDown(w)
            /\ (workers[w].stopped /\ workers[w].pc = "done")
                 => workers[w].completes = <<FALSE>>)
    /\ [][\A w \in 1..Len(workers) :
            workers[w].saw => workers'[w].ticks = workers[w].ticks]_vars

\* C33 as the code has it: the worker that finds the stop event set at one
\* of its checks makes no further tick and completes with False exactly
\* once; a stop() that comes after the last check, or that start() clears
\* before the worker looks, is not observed.
C33_TicksThenCompleteIfSeen ==
    /\ [](\A w \in 1..Len(workers) :
            /\ CountsDown(w)
            /\ workers[w].saw => workers[w].completes = <<FALSE>>
            /\ workers[w].completes = <<FALSE>> => workers[w].saw)
    /\ [][\A w \in 1..Len(workers) :
            workers[w].saw => workers'[w].ticks = workers[w].ticks]_vars

\* A countdown of two seconds stopped after its first tick has ended.
C33_Witness ==
    \E w \in 1..Len(workers) :
      /\ workers[w].pc = "done" /\ workers[w].seconds = 2
      /\ workers[w].stopped /\ workers[w].saw
      /\ workers[w].ticks = <<2>> /\ workers[w].completes = <<FALSE>>

\* C40: a worker makes no tick once a newer worker has been started; a
\* worker that was still in its loop when the newer one was started
\* completes with False; and is_running is True as long as the newest
\* worker has not finished.
C40_OneCountdown ==
    /\ [][\A w \in 1..Len(workers) :
            w < Len(workers) => workers'[w].ticks = workers[w].ticks]_vars
    /\ [](\A w \in 1..Len(workers) :
            (workers[w].cut /\ workers[w].pc = "done")
              => workers[w].completes = <<FALSE>>)
    /\ []((caller.pc = "idle" /\ IsAlive) => is_running)

====
